---- MODULE Spec2Model ----
(***************************************************************************)
(* A model of the repository layer of update-tracker: the DocRepo with its *)
(* DeduplicatingWriter, the UpdateRepo and the TagRepo, over a file system *)
(* of named leaves and open file handles.                                  *)
(***************************************************************************)
EXTENDS Integers, Sequences, FiniteSets, TLC

\* ---------------------------------------------------------------- bounds
\* instants are 1..MaxTs
MaxTs == 3
\* a writer writes at most MaxLen bytes in total
MaxLen == 2
\* create() calls of DocRepo / UpdateRepo in a run with concurrent callers
MaxWrites == 3
MaxUpdates == 2
\* tag_update calls in a run
MaxTagUpdates == 3
\* create and ensure calls of UpdateRepo in a run with one caller
MaxSeqUpdates == 3
\* UpdateRefs collected into the ordered sets
MaxRefs == 3
\* create and ensure calls of UpdateRepo in a run with urls of every form
MaxAsked == 2

\* The two buffer sizes of the writer, scaled down (1024 and 32 * 1024 bytes in
\* the source): a write() longer than DUPLICATE_CHECK_BUFFER_SIZE is compared
\* in several chunks, and more than WRITE_AVOIDANCE_BUFFER_LIMIT bytes overflow
\* the write-avoidance buffer.
DUPLICATE_CHECK_BUFFER_SIZE == 1
WRITE_AVOIDANCE_BUFFER_LIMIT == 1

Bytes == {"a", "b"}
\* a Url: its host and its path segments
U1 == <<"www.example.org", "test", "doc">>
\* the url one segment above U1: the node of U1 is a subdirectory of its node
U2 == <<"www.example.org", "test">>
Urls == {U1, U2}
\* Url values as the caller passes them: scheme, host, port (0: the default
\* port, not written), the segments of the path (an empty last segment is a
\* trailing slash) and the query ("" when there is none)
Hrefs ==
    [scheme : {"http", "https"}, host : {"www.example.org"}, port : {0, 8080},
     path : {<<"test", "doc">>, <<"test", "doc", "">>, <<"test">>},
     query : {"", "page=2"}]

\* the components of a relative path: a trailing separator adds none
RECURSIVE components(_)
components(path) ==
    IF path = <<>> THEN <<>>
    ELSE IF Head(path) = "" THEN components(Tail(path))
    ELSE <<Head(path)>> \o components(Tail(path))

\* Url::to_path: base.join(host_str()).join(path without its leading '/'),
\* as components below base.  These are the urls of the repositories
to_path(href) == <<href.host>> \o components(href.path)

Offsets == {0, 1}

\* DateTime<FixedOffset>: <<instant, offset>>
Timestamps == (1..MaxTs) \X Offsets
\* the timestamps without offset
UtcTimestamps == {t \in Timestamps : t[2] = 0}

\* ---------------------------------------------------------------- Option
None == <<>>
Some(x) == <<x>>
IsSome(o) == o # <<>>
Unwrap(o) == o[1]

\* ------------------------------------------------------ leaf names, paths
\* the RFC 3339 text of a timestamp: its local time and its offset
to_rfc3339(ts) == <<ts[1] + ts[2], ts[2]>>
\* str::parse::<DateTime<FixedOffset>> of a leaf name
parse(name) == <<name[1] - name[2], name[2]>>
Names == {to_rfc3339(t) : t \in Timestamps}
\* String::cmp of two leaf names
NameLess(n1, n2) == n1[1] < n2[1] \/ (n1[1] = n2[1] /\ n1[2] < n2[2])

\* the threads that write documents
Writers == 1..2

VARIABLES
    docDir,     \* DocRepo leaves: url -> leaf name -> Some(bytes) or None
    unlinked,   \* the bytes of removed files that are still open, by slot
    writers,    \* the DeduplicatingWriters, with the position of their caller
    updDir,     \* UpdateRepo leaves: url -> leaf name -> Some(bytes) or None
    creators,   \* the callers of UpdateRepo::create, with their position
    tagDir,     \* TagRepo files: tag name -> Some(bytes) or None
    taggers,    \* the callers of TagRepo::tag_update, with their position
    calls,      \* how many calls of each repository have begun
    updates,    \* the BTreeSets of UpdateRefs, one of each ordering
    asked,      \* the Url values the caller of UpdateRepo passed, call by call
    tree,       \* the files below the base url of a listing: url -> file names
    iter,       \* the IterUrlRepoLeaves of DocRepo::list_all and its consumer
    history     \* the (timestamp, content) writes for which done() was called

docVars == <<docDir, unlinked, writers>>
updVars == <<updDir, creators>>
tagVars == <<tagDir, taggers>>
auxVars == <<updates, asked, tree, iter, history>>
vars == <<docDir, unlinked, writers, updDir, creators, tagDir, taggers, calls, updates,
          asked, tree, iter, history>>

\* the leaf at path_for_version(doc): Some(bytes), or None when there is none
path_for_version(dir, doc) == dir[doc[1]][to_rfc3339(doc[2])]

\* ------------------------------------------------------------ list_versions
RECURSIVE SortedNames(_)
SortedNames(S) ==
    IF S = {} THEN <<>>
    ELSE LET m == CHOOSE n \in S : \A o \in S : o = n \/ NameLess(n, o)
         IN <<m>> \o SortedNames(S \ {m})

Rev(s) == [i \in 1..Len(s) |-> s[Len(s) + 1 - i]]

\* UrlRepo::read_leaves_sorted_for_url: the leaf names of a url, sorted
read_leaves_sorted_for_url(dir, url) ==
    SortedNames({n \in Names : IsSome(dir[url][n])})

\* DocRepo::list_versions: newest name first, each name parsed
list_versions(dir, url) ==
    LET files == Rev(read_leaves_sorted_for_url(dir, url))
    IN [i \in 1..Len(files) |-> <<url, parse(files[i])>>]

\* DocRepo::document_exists
document_exists(dir, url) == \E n \in Names : IsSome(dir[url][n])

\* DocRepo::neighbours: the loop over list_versions
RECURSIVE NeighboursLoop(_, _, _, _)
NeighboursLoop(list, r_ts, before, after) ==
    IF list = <<>> THEN <<before, after>>
    ELSE LET candidate == Head(list)
             c == candidate[2][1]
         IN IF c < r_ts[1]
            THEN NeighboursLoop(Tail(list), r_ts,
                    IF IsSome(before) /\ ~(c > Unwrap(before)[2][1])
                    THEN before ELSE Some(candidate), after)
            ELSE IF c > r_ts[1]
            THEN NeighboursLoop(Tail(list), r_ts, before,
                    IF IsSome(after) /\ ~(c < Unwrap(after)[2][1])
                    THEN after ELSE Some(candidate))
            ELSE NeighboursLoop(Tail(list), r_ts, before, after)

\* neighbours with the two results in the wrong order
neighbours_swapped(dir, doc) ==
    LET r == NeighboursLoop(list_versions(dir, doc[1]), doc[2], None, None)
    IN <<r[2], r[1]>>

\* DocRepo::neighbours: (before, after) of a version
neighbours(dir, doc) == NeighboursLoop(list_versions(dir, doc[1]), doc[2], None, None)

\* -------------------------------------------------------------- the writer
IdleWriter ==
    [pc |-> "idle", doc |-> <<U1, <<1, 0>>>>, state |-> "None",
     is_new_doc |-> FALSE, buffer |-> <<>>, file |-> None,
     before |-> None, after |-> None,
     identical_before |-> None, identical_after |-> None,
     written |-> <<>>, result |-> None, pre |-> None, rivals |-> {},
     dropped |-> None]

\* An open fs::File.  It is named by the leaf it was opened at while that leaf
\* is linked (slot 0); once the leaf is removed the file lives on in a slot of
\* `unlinked` until its last handle is closed.
Slots == 1..(3 * Cardinality(Writers))
Handle(url, name) == [slot |-> 0, url |-> url, name |-> name]

\* the bytes of an open file
Content(st, h) ==
    IF h.slot = 0 THEN Unwrap(st.dir[h.url][h.name]) ELSE st.unlinked[h.slot]

\* file.write(buf) on the writer's own file, which nobody else writes
write_all(st, h, buf) ==
    IF h.slot = 0
    THEN [st EXCEPT !.dir[h.url][h.name] = Some(Unwrap(@) \o buf)]
    ELSE [st EXCEPT !.unlinked[h.slot] = @ \o buf]

\* the files a writer holds open
Handles(w) ==
    (IF IsSome(w.file) THEN {Unwrap(w.file)} ELSE {})
    \cup (IF IsSome(w.identical_before) THEN {Unwrap(w.identical_before).file} ELSE {})
    \cup (IF IsSome(w.identical_after) THEN {Unwrap(w.identical_after).file} ELSE {})

OpenSlots(ws) == {h.slot : h \in UNION {Handles(ws[w]) : w \in Writers}} \ {0}

FreeSlot(ws) == CHOOSE k \in Slots :
    k \notin OpenSlots(ws) /\ \A j \in Slots : j < k => j \in OpenSlots(ws)

\* a handle, and a writer's handles, after the leaf (url, name) moved to slot k
Moved(h, url, name, k) ==
    IF h.slot = 0 /\ h.url = url /\ h.name = name THEN [h EXCEPT !.slot = k] ELSE h
MovedNeighbour(identical, url, name, k) ==
    IF IsSome(identical)
    THEN Some([Unwrap(identical) EXCEPT !.file = Moved(@, url, name, k)])
    ELSE None
MovedWriter(w, url, name, k) ==
    [w EXCEPT !.file = IF IsSome(@) THEN Some(Moved(Unwrap(@), url, name, k)) ELSE None,
              !.identical_before = MovedNeighbour(@, url, name, k),
              !.identical_after = MovedNeighbour(@, url, name, k)]

\* fs::remove_file of the existing leaf (url, name): the name goes, the file
\* stays for the handles open on it
remove_file(st, url, name) ==
    LET k == FreeSlot(st.ws)
    IN [dir |-> [st.dir EXCEPT ![url][name] = None],
        unlinked |-> [st.unlinked EXCEPT ![k] = Unwrap(st.dir[url][name])],
        ws |-> [w \in Writers |-> MovedWriter(st.ws[w], url, name, k)]]

\* what an operation of the writer returned: op is the operation (create, write
\* or done), doc and events the WithEvents of an Ok, err the ErrorKind of an Err
Ok(doc, events) == [op |-> "done", ok |-> TRUE, doc |-> doc, events |-> events, err |-> ""]
Err(op, kind) == [op |-> op, ok |-> FALSE, doc |-> <<>>, events |-> <<>>, err |-> kind]

\* a writer that returned: self is consumed, its handles are closed
Returned(w, result) ==
    [w EXCEPT !.pc = IF result.ok THEN "done" ELSE "failed",
              !.result = Some(result), !.file = None,
              !.identical_before = None, !.identical_after = None,
              !.state = "None", !.buffer = <<>>]

\* the state of the DocRepo and its writers
St == [dir |-> docDir, unlinked |-> unlinked, ws |-> writers]

\* the state after an operation: a file without name and handle is gone
Commit(st) ==
    /\ docDir' = st.dir
    /\ writers' = st.ws
    /\ unlinked' = [k \in Slots |-> IF k \in OpenSlots(st.ws) THEN st.unlinked[k]
                                    ELSE <<>>]

\* writer w returns result
Return(st, w, result) == Commit([st EXCEPT !.ws[w] = Returned(@, result)])

\* DocRepo::create and the first half of DeduplicatingWriter::new: the
\* neighbours of the new version are looked up
Create(w, url, timestamp) ==
    /\ writers[w].pc \in {"idle", "done", "failed", "dropped"}
    /\ LET doc == <<url, timestamp>>
           nb == neighbours(docDir, doc)
           mid == {v \in Writers \ {w} : writers[v].pc \in {"new", "writer"}}
           self == [IdleWriter EXCEPT
              !.pc = "new", !.doc = doc, !.before = nb[1], !.after = nb[2],
              !.pre = Some(docDir[url]), !.rivals = mid,
              !.dropped = IF writers[w].pc = "dropped"
                          THEN Some([doc |-> writers[w].doc,
                                     written |-> writers[w].written])
                          ELSE None]
       IN Commit([St EXCEPT !.ws =
                 [v \in Writers |-> IF v = w THEN self
                                    ELSE IF v \in mid
                                    THEN [writers[v] EXCEPT !.rivals = @ \cup {w}]
                                    ELSE writers[v]]])

\* a writer that opens no neighbour
open_no_neighbour(dv) == None

\* open_neighbour of DeduplicatingWriter::new
open_neighbour(dv) ==
    IF IsSome(dv)
    THEN Some([doc |-> Unwrap(dv),
               file |-> Handle(Unwrap(dv)[1], to_rfc3339(Unwrap(dv)[2])), pos |-> 0])
    ELSE None

\* The second half of DeduplicatingWriter::new: the neighbours are opened and
\* the writer starts Writing (no neighbour: the leaf is created) or Buffering
New(w) ==
    /\ writers[w].pc = "new"
    /\ LET self == writers[w]
           url == self.doc[1]
           name == to_rfc3339(self.doc[2])
           missing(dv) == IsSome(dv) /\ path_for_version(docDir, Unwrap(dv)) = None
           identical_before == open_neighbour(self.before)
           identical_after == open_neighbour(self.after)
       IN IF missing(self.before) \/ missing(self.after)
          THEN Return(St, w, Err("create", "NotFound"))
          ELSE IF identical_before = None /\ identical_after = None
          THEN IF IsSome(docDir[url][name])
               THEN Return(St, w, Err("create", "AlreadyExists"))
               ELSE Commit([St EXCEPT
                      !.dir[url][name] = Some(<<>>),
                      !.ws[w] = [self EXCEPT !.pc = "writer", !.state = "Writing",
                                    !.file = Some(Handle(url, name)),
                                    !.is_new_doc = TRUE]])
          ELSE Commit([St EXCEPT
                      !.ws[w] = [self EXCEPT !.pc = "writer", !.state = "Buffering",
                                    !.identical_before = identical_before,
                                    !.identical_after = identical_after]])

\* DeduplicatingWriter::really_flush of writer w in state st: the leaf is
\* created from the buffer unless the writer is Writing already
really_flush(st, w) ==
    LET self == st.ws[w]
        url == self.doc[1]
        name == to_rfc3339(self.doc[2])
    IN IF self.state = "Writing"
       THEN [ok |-> TRUE, is_new_doc |-> self.is_new_doc, st |-> st]
       ELSE IF IsSome(st.dir[url][name])
       THEN [ok |-> FALSE, is_new_doc |-> FALSE, st |-> st]
       ELSE [ok |-> TRUE, is_new_doc |-> FALSE,
             st |-> [st EXCEPT
                !.dir[url][name] = Some(self.buffer),
                !.ws[w] = [self EXCEPT !.state = "Writing",
                              !.file = Some(Handle(url, name)),
                              !.is_new_doc = FALSE]]]

\* a comparison that takes the end of the neighbour for a match
check_neighbour_to_eof(st, identical, buf) ==
    IF identical = None THEN None
    ELSE LET n == Unwrap(identical)
             content == Content(st, n.file)
             left == IF Len(content) - n.pos < Len(buf)
                     THEN Len(content) - n.pos ELSE Len(buf)
         IN IF SubSeq(content, n.pos + 1, n.pos + left) # SubSeq(buf, 1, left)
            THEN None
            ELSE Some([n EXCEPT !.pos = @ + left])

\* one neighbour of check_duplicate_neighbours: read_exact(len(buf)), compare
check_neighbour(st, identical, buf) ==
    IF identical = None THEN None
    ELSE LET n == Unwrap(identical)
             content == Content(st, n.file)
         IN IF Len(content) - n.pos < Len(buf)
            THEN None
            ELSE IF SubSeq(content, n.pos + 1, n.pos + Len(buf)) # buf
            THEN None
            ELSE Some([n EXCEPT !.pos = @ + Len(buf)])

\* DeduplicatingWriter::check_duplicate_neighbours
check_duplicate_neighbours(st, self, buf) ==
    [self EXCEPT !.identical_before = check_neighbour(st, self.identical_before, buf),
                 !.identical_after = check_neighbour(st, self.identical_after, buf)]

\* the loop of write() over buf.chunks(DUPLICATE_CHECK_BUFFER_SIZE)
RECURSIVE CheckChunks(_, _, _)
CheckChunks(st, self, buf) ==
    IF buf = <<>> THEN self
    ELSE LET n == IF Len(buf) < DUPLICATE_CHECK_BUFFER_SIZE
                  THEN Len(buf) ELSE DUPLICATE_CHECK_BUFFER_SIZE
         IN CheckChunks(st, check_duplicate_neighbours(st, self, SubSeq(buf, 1, n)),
                        SubSeq(buf, n + 1, Len(buf)))

\* the buffers a caller passes to write()
Bufs == UNION {[1..n -> Bytes] : n \in 1..MaxLen}

\* <DeduplicatingWriter as io::Write>::write
Write(w, buf) ==
    /\ writers[w].pc = "writer"
    /\ Len(writers[w].written) + Len(buf) <= MaxLen
    /\ LET self == writers[w]
           overflow == /\ self.state = "Buffering"
                       /\ Len(self.buffer) + Len(buf) > WRITE_AVOIDANCE_BUFFER_LIMIT
           flushed == IF overflow THEN really_flush(St, w)
                      ELSE [ok |-> TRUE, is_new_doc |-> self.is_new_doc, st |-> St]
           me == flushed.st.ws[w]
           stored == IF me.state = "Writing"
                     THEN write_all(flushed.st, Unwrap(me.file), buf)
                     ELSE [flushed.st EXCEPT !.ws[w].buffer = @ \o buf]
           checked == CheckChunks(stored, stored.ws[w], buf)
       IN IF ~flushed.ok
          THEN Return(St, w, Err("write", "AlreadyExists"))
          ELSE Commit([stored EXCEPT !.ws[w] = [checked EXCEPT !.written = @ \o buf]])

\* file.read(&mut [0]).is_err() in done(): a read of a regular file returns
\* Ok(1) when a byte is left and Ok(0) at end of file, never Err
read_is_err(st, identical) == FALSE

\* a done() that retires every neighbour
done_check_retire(st, identical) == None

\* the two read checks at the start of DeduplicatingWriter::done
done_check(st, identical) ==
    IF IsSome(identical) /\ read_is_err(st, identical) THEN None ELSE identical

Updated(doc) == <<"Updated", doc[1], doc[2]>>
Deleted(doc) == <<"Deleted", doc[1], doc[2]>>
Created(doc) == <<"Created", doc[1]>>

\* DeduplicatingWriter::done
Done(w) ==
    /\ writers[w].pc = "writer"
    /\ LET self == writers[w]
           url == self.doc[1]
           name == to_rfc3339(self.doc[2])
           identical_before == done_check(St, self.identical_before)
           identical_after == done_check(St, self.identical_after)
           flushed == really_flush(St, w)
       IN IF IsSome(identical_before)
          THEN LET before == Unwrap(identical_before).doc
               IN IF self.state = "Writing"
                  THEN IF docDir[url][name] = None
                       THEN Return(St, w, Err("done", "NotFound"))
                       ELSE Return(remove_file(St, url, name), w, Ok(before, <<>>))
                  ELSE Return(St, w, Ok(before, <<>>))
          ELSE IF ~flushed.ok
          THEN Return(St, w, Err("done", "AlreadyExists"))
          ELSE IF IsSome(identical_after)
          THEN LET after == Unwrap(identical_after).doc
               IN IF path_for_version(flushed.st.dir, after) = None
                  THEN Return(flushed.st, w, Err("done", "NotFound"))
                  ELSE Return(remove_file(flushed.st, after[1], to_rfc3339(after[2])), w,
                              Ok(self.doc, <<Updated(self.doc), Deleted(after)>>))
          ELSE Return(flushed.st, w,
                      Ok(self.doc, IF flushed.is_new_doc
                                   THEN <<Updated(self.doc), Created(self.doc)>>
                                   ELSE <<Updated(self.doc)>>))

\* The writer is dropped before done(): its files are closed, nothing else
\* runs (DeduplicatingWriter has no Drop)
Drop(w) ==
    /\ writers[w].pc = "writer"
    /\ Commit([St EXCEPT !.ws[w] = [@ EXCEPT
            !.pc = "dropped", !.file = None, !.identical_before = None,
            !.identical_after = None, !.state = "None", !.buffer = <<>>]])

\* ------------------------------------------------------------------------
\* UpdateRepo

Creators == 1..2
\* change descriptions, as sequences of characters: U+0078 and U+00E9
Changes == {<<>>, <<"x">>, <<"eacute">>}

\* the ISO 8859-1 encoding of a character
latin1(ch) == IF ch = "x" THEN <<120>> ELSE <<233>>

\* str::as_bytes: the UTF-8 encoding of the string
utf8(ch) == IF ch = "x" THEN <<120>> ELSE <<195, 169>>
RECURSIVE as_bytes(_)
as_bytes(change) ==
    IF change = <<>> THEN <<>> ELSE utf8(Head(change)) \o as_bytes(Tail(change))

\* String::from_utf8: Some(string), or None for the FromUtf8Error
RECURSIVE from_utf8(_)
from_utf8(vec) ==
    IF vec = <<>> THEN Some(<<>>)
    ELSE LET one == Head(vec) = 120
             two == Len(vec) >= 2 /\ vec[1] = 195 /\ vec[2] = 169
             rest == from_utf8(IF one THEN Tail(vec) ELSE Tail(Tail(vec)))
         IN IF (one \/ two) /\ IsSome(rest)
            THEN Some(<<IF one THEN "x" ELSE "eacute">> \o Unwrap(rest))
            ELSE None

\* a caller of UpdateRepo; pre is the repository when its call began, prev the
\* call it made before and log the updates its calls have written, all three
\* kept for the properties
IdleCreator ==
    [pc |-> "idle", op |-> "create", url |-> U1, timestamp |-> <<1, 0>>,
     change |-> <<>>, result |-> None, rivals |-> {},
     pre |-> [u \in Urls |-> [n \in Names |-> None]], prev |-> None, log |-> {}]

\* the earlier of two timestamps
min(t1, t2) == IF t2[1] <= t1[1] THEN t2 ELSE t1

\* std::cmp::max of two DateTime<FixedOffset>: they compare by instant, and
\* the second is returned when they are equal
max(t1, t2) == IF t2[1] >= t1[1] THEN t2 ELSE t1

\* <DateTime<FixedOffset> as PartialEq>::eq: the same instant
eq(t1, t2) == t1[1] = t2[1]

\* the urls stored below a url: the longer urls with a leaf.  The directory of
\* a url is made by the create_dir_all of create and ensure, just before the
\* leaf, and nothing removes a directory or a leaf of this repository
Below(dir, url) ==
    {v \in Urls : /\ Len(v) > Len(url)
                  /\ SubSeq(v, 1, Len(url)) = url
                  /\ \E n \in Names : IsSome(dir[v][n])}

\* the subdirectories of the node directory of a url, named by the next path
\* segment of the urls stored below it
SubDirs(dir, url) == {v[Len(url) + 1] : v \in Below(dir, url)}

RECURSIVE SegmentsInOrder(_)
SegmentsInOrder(S) ==
    IF S = {} THEN <<>>
    ELSE LET m == CHOOSE n \in S : TRUE
         IN <<[is_dir |-> TRUE, file_name |-> m]>> \o SegmentsInOrder(S \ {m})

\* fs::read_dir(path_for(url, None)) sorted by file name: the leaves (their
\* names start with the digits of a year) and then the subdirectories (of the
\* urls of Urls, at most one lies directly below another)
read_dir(dir, url) ==
    LET leaves == SortedNames({n \in Names : IsSome(dir[url][n])})
    IN [i \in 1..Len(leaves) |-> [is_dir |-> FALSE, file_name |-> leaves[i]]]
       \o SegmentsInOrder(SubDirs(dir, url))

\* whether str::parse::<DateTime<FixedOffset>> accepts the name of an entry:
\* the leaves are named by to_rfc3339, a path segment of Urls is no timestamp
parses(entry) == ~entry.is_dir

\* UpdateRepo::latest: the loop over the directory entries (read in name
\* order here; fs::read_dir promises no order).  The name of every entry is
\* parsed, and the first that is no timestamp ends the loop with an error
RECURSIVE LatestLoop(_, _)
LatestLoop(dir, latest) ==
    IF dir = <<>> THEN [err |-> "", latest |-> latest]
    ELSE IF ~parses(Head(dir)) THEN [err |-> "Other", latest |-> None]
    ELSE LET timestamp == parse(Head(dir).file_name)
         IN LatestLoop(Tail(dir), IF IsSome(latest)
                                  THEN Some(max(Unwrap(latest), timestamp))
                                  ELSE Some(timestamp))

\* UpdateRepo::latest: Some(timestamp), or None for an error
latest(dir, url) == LatestLoop(read_dir(dir, url), None).latest

\* UpdateRepo::latest: the kind of its error, "" when it returns a timestamp
latest_err(dir, url) ==
    LET r == LatestLoop(read_dir(dir, url), None)
    IN IF r.err # "" THEN r.err
       ELSE IF r.latest = None THEN "NotFound" ELSE ""

\* UpdateRepo::get_update: Some(change), or None for an error (NotFound when
\* the leaf is missing)
get_update(dir, url, timestamp) ==
    LET leaf == dir[url][to_rfc3339(timestamp)]
    IN IF leaf = None THEN None ELSE from_utf8(Unwrap(leaf))

\* UpdateRepo::list_updates: the entries sorted by file name, the last first;
\* each name is parsed and the leaf read and decoded.  An item is
\* Some(update), or None for an error
list_updates(dir, url) ==
    LET entries == Rev(read_dir(dir, url))
    IN [i \in 1..Len(entries) |->
           IF ~parses(entries[i]) THEN None
           ELSE LET timestamp == parse(entries[i].file_name)
                    change == get_update(dir, url, timestamp)
                IN IF change = None THEN None
                   ELSE Some(<<url, timestamp, Unwrap(change)>>)]

Added(url, timestamp) == <<"Added", url, timestamp>>
New_(url, timestamp) == <<"New", url, timestamp>>

UpdOk(update, events) == [ok |-> TRUE, update |-> update, events |-> events, err |-> ""]
UpdErr(kind) == [ok |-> FALSE, update |-> <<>>, events |-> <<>>, err |-> kind]

\* the callers in the middle of a call, and the call a caller has returned from
UpdMid(c) == {v \in Creators \ {c} : creators[v].pc \in {"ensuring", "opened", "written"}}
UpdPrev(self) ==
    IF self.pc \in {"done", "failed"}
    THEN Some([op |-> self.op, url |-> self.url, timestamp |-> self.timestamp,
               change |-> self.change, pre |-> self.pre,
               result |-> Unwrap(self.result)])
    ELSE None
UpdBegin(c, op, url, timestamp, change) ==
    [IdleCreator EXCEPT !.op = op, !.url = url, !.timestamp = timestamp,
                        !.change = change, !.rivals = UpdMid(c),
                        !.pre = updDir, !.prev = UpdPrev(creators[c]),
                        !.log = creators[c].log]

\* an open that truncates an existing leaf instead of failing on it
UpdCreateTruncate(c, self) ==
    /\ creators' = [creators EXCEPT ![c] = [self EXCEPT !.pc = "opened"]]
    /\ updDir' = [updDir EXCEPT ![self.url][to_rfc3339(self.timestamp)] = Some(<<>>)]

\* OpenOptions::new().write(true).create_new(true).open(path) by caller c
UpdCreateNew(c, self) ==
    LET exists == IsSome(updDir[self.url][to_rfc3339(self.timestamp)])
    IN /\ creators' =
             [v \in Creators |->
                 IF v = c
                 THEN IF exists
                      THEN [self EXCEPT !.pc = "failed",
                                        !.result = Some(UpdErr("AlreadyExists"))]
                      ELSE [self EXCEPT !.pc = "opened"]
                 ELSE IF v \in UpdMid(c) THEN [creators[v] EXCEPT !.rivals = @ \cup {c}]
                 ELSE creators[v]]
       /\ updDir' = IF exists THEN updDir
                    ELSE [updDir EXCEPT ![self.url][to_rfc3339(self.timestamp)] =
                                            Some(<<>>)]

\* UpdateRepo::create up to the create_new open of the leaf
UpdCreate(c, url, timestamp, change) ==
    /\ creators[c].pc \in {"idle", "done", "failed"}
    /\ UpdCreateNew(c, UpdBegin(c, "create", url, timestamp, change))

\* UpdateRepo::ensure up to the comparison with the contents of the leaf
UpdEnsure(c, url, timestamp, change) ==
    /\ creators[c].pc \in {"idle", "done", "failed"}
    /\ LET self == UpdBegin(c, "ensure", url, timestamp, change)
           file == updDir[url][to_rfc3339(timestamp)]
           contents == IF IsSome(file) THEN from_utf8(Unwrap(file)) ELSE None
           update == <<url, timestamp, change>>
       IN creators' =
             [v \in Creators |->
                 IF v = c
                 THEN IF IsSome(file) /\ contents = None
                      THEN [self EXCEPT !.pc = "failed",
                                        !.result = Some(UpdErr("InvalidData"))]
                      ELSE IF IsSome(file) /\ change = Unwrap(contents)
                      THEN [self EXCEPT !.pc = "done",
                                        !.result = Some(UpdOk(update, <<>>))]
                      ELSE [self EXCEPT !.pc = "ensuring"]
                 ELSE IF v \in UpdMid(c) THEN [creators[v] EXCEPT !.rivals = @ \cup {c}]
                 ELSE creators[v]]
    /\ UNCHANGED updDir

\* UpdateRepo::ensure: the create_new open of the leaf
UpdEnsureCreate(c) ==
    /\ creators[c].pc = "ensuring"
    /\ UpdCreateNew(c, creators[c])

\* UpdateRepo::create and ensure: file.write_all(change.as_bytes()), file.flush()
UpdWrite(c) ==
    /\ creators[c].pc = "opened"
    /\ LET self == creators[c]
       IN /\ updDir' = [updDir EXCEPT ![self.url][to_rfc3339(self.timestamp)] =
                                            Some(as_bytes(self.change))]
          /\ creators' = [creators EXCEPT ![c].pc = "written"]

\* UpdateRepo::create: the events, Added chained with New when the update is
\* the latest
create_events(l, url, timestamp) ==
    <<Added(url, timestamp)>> \o
        (IF eq(l, timestamp) THEN <<New_(url, timestamp)>> ELSE <<>>)

\* an ensure that never reports the update as the latest
ensure_events_added_only(l, url, timestamp) == <<Added(url, timestamp)>>

\* UpdateRepo::ensure: the events of an ensure that wrote the leaf
ensure_events(l, url, timestamp) ==
    LET added_event == Added(url, timestamp)
    IN IF eq(l, timestamp) THEN <<added_event, New_(url, timestamp)>>
       ELSE <<added_event>>

\* UpdateRepo::create and ensure: latest(), the events and the return
UpdReturn(c) ==
    /\ creators[c].pc = "written"
    /\ LET self == creators[c]
           l == latest(updDir, self.url)
           update == <<self.url, self.timestamp, self.change>>
       IN creators' = [creators EXCEPT ![c] =
              IF l = None
              THEN [self EXCEPT !.pc = "failed",
                        !.result = Some(UpdErr(latest_err(updDir, self.url)))]
              ELSE [self EXCEPT !.pc = "done", !.log = @ \cup {update},
                        !.result = Some(UpdOk(update,
                        IF self.op = "create"
                        THEN create_events(Unwrap(l), self.url, self.timestamp)
                        ELSE ensure_events(Unwrap(l), self.url, self.timestamp)))]]
    /\ UNCHANGED updDir

\* ------------------------------------------------------------------------
\* TagRepo

Taggers == 1..2
\* tag names, as the components base.join(name) gives the path of the tag
\* file: "cat", "dog" and "pets/dog"
Tags == {<<"cat">>, <<"dog">>, <<"pets", "dog">>}
UpdateRefs == {<<U1, <<1, 0>>>>, <<U2, <<2, 1>>>>}

\* <UpdateRef as Display>::fmt: "{url}#{rfc3339}"
UpdateRefText(update_ref) == update_ref[1] \o <<"#", to_rfc3339(update_ref[2])>>

\* a line without its newline
LineUnterminated(update_ref) == UpdateRefText(update_ref)

\* TagRepo::tag_update: the line of the tag file, format!("{}\n", update_ref)
Line(update_ref) == UpdateRefText(update_ref) \o <<"\n">>

\* a caller of tag_update; pre and pre_dir are the tag file and the directory
\* when its call began and log the UpdateRefs its calls have written to each
\* tag, all three kept for the properties
IdleTagger ==
    [pc |-> "idle", tag |-> <<"cat">>, update_ref |-> <<U1, <<1, 0>>>>,
     is_new_tag |-> FALSE, append |-> FALSE, pos |-> 0,
     pre |-> <<>>, result |-> None, rivals |-> {},
     pre_dir |-> [t \in Tags |-> None], log |-> [t \in Tags |-> <<>>]]

TagCreated(tag) == <<"TagCreated", tag>>
UpdateTagged(tag, update_ref) == <<"UpdateTagged", tag, update_ref>>

\* write(2) of data at offset pos of a file opened without O_APPEND
WriteAt(content, pos, data) ==
    LET end == IF pos + Len(data) > Len(content) THEN pos + Len(data) ELSE Len(content)
    IN [i \in 1..end |-> IF i > pos /\ i <= pos + Len(data) THEN data[i - pos]
                         ELSE content[i]]

\* TagRepo::tag_update up to the open of the tag file: create_new, or else
\* (the file exists) an open for append
TagOpen(t, tag_name, update_ref) ==
    /\ taggers[t].pc \in {"idle", "done"}
    /\ LET mid == {v \in Taggers \ {t} : taggers[v].pc = "opened"}
           is_new_tag == tagDir[tag_name] = None
           self == [IdleTagger EXCEPT
                      !.pc = "opened", !.tag = tag_name, !.update_ref = update_ref,
                      !.is_new_tag = is_new_tag, !.append = ~is_new_tag,
                      !.pre = IF is_new_tag THEN <<>> ELSE Unwrap(tagDir[tag_name]),
                      !.rivals = mid,
                      !.pre_dir = tagDir, !.log = taggers[t].log]
       IN /\ taggers' = [v \in Taggers |->
                            IF v = t THEN self
                            ELSE IF v \in mid
                            THEN [taggers[v] EXCEPT !.rivals = @ \cup {t}]
                            ELSE taggers[v]]
          /\ tagDir' = IF is_new_tag THEN [tagDir EXCEPT ![tag_name] = Some(<<>>)]
                       ELSE tagDir

\* a tag_update that reports every tag as created
tag_events_always_created(is_new_tag, tag, update_ref) ==
    <<TagCreated(tag), UpdateTagged(tag, update_ref)>>

\* TagRepo::tag_update: the events
tag_events(is_new_tag, tag, update_ref) ==
    LET tagged == UpdateTagged(tag, update_ref)
    IN IF is_new_tag THEN <<TagCreated(tag), tagged>> ELSE <<tagged>>

\* TagRepo::tag_update: file.write_all(line), file.flush(), and the return
TagWrite(t) ==
    /\ taggers[t].pc = "opened"
    /\ LET self == taggers[t]
           content == Unwrap(tagDir[self.tag])
           line == Line(self.update_ref)
       IN /\ tagDir' = [tagDir EXCEPT ![self.tag] =
                          Some(IF self.append THEN content \o line
                               ELSE WriteAt(content, self.pos, line))]
          /\ taggers' = [taggers EXCEPT ![t] = [self EXCEPT
                !.pc = "done", !.pos = @ + Len(line),
                !.log = [@ EXCEPT ![self.tag] = Append(@, self.update_ref)],
                !.result = Some([ok |-> TRUE, tag |-> self.tag,
                    events |-> tag_events(self.is_new_tag, self.tag,
                                          self.update_ref)])]]

\* the order of file names (OsString) among the names in use
FileNames == <<"cat", "dog", "pets">>
FileNameRank(name) == CHOOSE i \in 1..Len(FileNames) : FileNames[i] = name

\* dir.sort_by_key(fs::DirEntry::file_name) on a set of entries
RECURSIVE SortedFileNames(_)
SortedFileNames(entries) ==
    IF entries = {} THEN <<>>
    ELSE LET first == CHOOSE e \in entries :
                         \A f \in entries : FileNameRank(e) <= FileNameRank(f)
         IN <<first>> \o SortedFileNames(entries \ {first})

\* TagRepo::list_tags: a Tag named after each entry of the base directory, in
\* the order of the file names
list_tags(dir) ==
    LET entries == {tag[1] : tag \in {t \in Tags : IsSome(dir[t])}}
        sorted == SortedFileNames(entries)
    IN [i \in 1..Len(sorted) |-> <<sorted[i]>>]

\* BufRead::lines: the lines of a file without their "\n"; an unterminated
\* last line is a line
RECURSIVE Lines(_, _)
Lines(content, line) ==
    IF content = <<>> THEN IF line = <<>> THEN <<>> ELSE <<line>>
    ELSE IF Head(content) = "\n" THEN <<line>> \o Lines(Tail(content), <<>>)
    ELSE Lines(Tail(content), Append(line, Head(content)))

\* <UpdateRef as FromStr>::from_str: Some(update_ref), or None for an error;
\* the url up to the "#", the timestamp parsed from the fragment
from_str(line) ==
    LET at == {i \in 1..Len(line) : line[i] = "#"}
    IN IF at = {} THEN None
       ELSE LET i == CHOOSE j \in at : \A k \in at : j <= k
                fragment == SubSeq(line, i + 1, Len(line))
            IN IF Len(fragment) = 1 /\ fragment[1] \in Names /\ i > 1
               THEN Some(<<SubSeq(line, 1, i - 1), parse(fragment[1])>>)
               ELSE None

\* TagRepo::list_updates_in_tag: Some(the parse result of each line), or None
\* for the error of File::open
list_updates_in_tag(dir, tag) ==
    IF dir[tag] = None THEN None
    ELSE LET lines == Lines(Unwrap(dir[tag]), <<>>)
         IN Some([i \in 1..Len(lines) |-> from_str(lines[i])])

\* ------------------------------------------------------------------------
\* UpdateRefByUrl, UpdateRefByTimestamp

\* a url beside U1 and U2, and the urls of the UpdateRefs that are ordered
U3 == <<"www.example.org", "doc">>
OrdUrls == {U1, U2, U3}
OrdRefs == OrdUrls \X Timestamps

\* the parts of the texts that are compared (urls after their scheme, file
\* names), in the order of their bytes: '/' < '2' < '<' < '>' < 'b' < ...
Parts ==
    <<"/", "2021", "2021-03-01T10", "2021-03-01T11", "<", ">", "bad", "doc", "docver",
      "notes.txt", "test", "update", "www.example.org">>
PartRank(p) == CHOOSE i \in 1..Len(Parts) : Parts[i] = p

\* Url::as_str: the serialization, the segments joined by "/"
RECURSIVE as_str(_)
as_str(url) ==
    IF Len(url) = 1 THEN url ELSE <<Head(url), "/">> \o as_str(Tail(url))

\* <str as Ord>::cmp: the first part that differs decides, and a prefix is Less
RECURSIVE str_cmp(_, _)
str_cmp(s, t) ==
    IF s = <<>> THEN IF t = <<>> THEN "Equal" ELSE "Less"
    ELSE IF t = <<>> THEN "Greater"
    ELSE IF PartRank(Head(s)) < PartRank(Head(t)) THEN "Less"
    ELSE IF PartRank(Head(s)) > PartRank(Head(t)) THEN "Greater"
    ELSE str_cmp(Tail(s), Tail(t))

\* the derived <Url as Ord>::cmp: url::Url compares the serializations
url_cmp(u, v) == str_cmp(as_str(u), as_str(v))

\* a comparison of the timestamps as they are written: local time, then offset
cmp_local(t1, t2) ==
    IF to_rfc3339(t1) = to_rfc3339(t2) THEN "Equal"
    ELSE IF NameLess(to_rfc3339(t1), to_rfc3339(t2)) THEN "Less" ELSE "Greater"

\* <DateTime<FixedOffset> as Ord>::cmp: by instant
cmp(t1, t2) ==
    IF t1[1] < t2[1] THEN "Less" ELSE IF t1[1] > t2[1] THEN "Greater" ELSE "Equal"

\* Ordering::then_with
then_with(ordering, f) == IF ordering = "Equal" THEN f ELSE ordering

\* the derived <UpdateRef as PartialEq>::eq, which both wrappers use
UpdateRef_eq(a, b) == a[1] = b[1] /\ eq(a[2], b[2])

\* <UpdateRefByUrl as Ord>::cmp
UpdateRefByUrl_cmp(self, other) ==
    then_with(url_cmp(self[1], other[1]), cmp(self[2], other[2]))

\* <UpdateRefByTimestamp as Ord>::cmp
UpdateRefByTimestamp_cmp(self, other) ==
    then_with(cmp(self[2], other[2]), url_cmp(self[1], other[1]))

\* BTreeSet::insert with the ordering ord ("url" or "timestamp"): value goes
\* before the first element it is Less than, and is dropped when the set
\* holds an element it is Equal to
Ord_cmp(ord, a, b) ==
    IF ord = "url" THEN UpdateRefByUrl_cmp(a, b) ELSE UpdateRefByTimestamp_cmp(a, b)

RECURSIVE insert(_, _, _)
insert(ord, set, value) ==
    IF set = <<>> THEN <<value>>
    ELSE LET ordering == Ord_cmp(ord, value, Head(set))
         IN IF ordering = "Equal" THEN set
            ELSE IF ordering = "Less" THEN <<value>> \o set
            ELSE <<Head(set)>> \o insert(ord, Tail(set), value)

\* an UpdateRef is collected into a BTreeSet<UpdateRefByUrl> and into a
\* BTreeSet<UpdateRefByTimestamp>
Insert(update_ref) ==
    /\ Len(updates.inserted) < MaxRefs
    /\ updates' = [by_url |-> insert("url", updates.by_url, update_ref),
                   by_timestamp |-> insert("timestamp", updates.by_timestamp, update_ref),
                   inserted |-> Append(updates.inserted, update_ref)]

\* ------------------------------------------------------------------------
\* UrlRepo::list_all, IterUrlRepoLeaves

\* the base url of the listing, the segments of the urls below it, and the
\* urls whose nodes the listing can visit
ListBase == <<"www.example.org">>
Segments == {"2021", "test"}
ListUrls == {ListBase} \cup {ListBase \o <<seg>> : seg \in Segments}

\* UrlRepo::leaf_path: the file name format!("<{}>{}", repo_key, name)
leaf_path(repo_key, name) == <<"<", repo_key, ">", name>>

\* the leaves DocRepo writes (named by a timestamp), and the other files a
\* node directory may hold: a leaf of this kind whose name is no timestamp, a
\* leaf of another repository kind, a file that is no leaf
DocLeaves == {leaf_path("docver", "2021-03-01T10"), leaf_path("docver", "2021-03-01T11")}
OtherFiles(url) ==
    IF url = ListBase
    THEN {leaf_path("docver", "bad"), leaf_path("update", "2021-03-01T10"), <<"notes.txt">>}
    ELSE {leaf_path("update", "2021-03-01T10")}

\* the entries of the node directory of url: its files, and a subdirectory
\* for every longer url that holds a file
DirEntries(t, url) ==
    {[file_name |-> f, is_dir |-> FALSE] : f \in t[url]}
    \cup {[file_name |-> <<seg>>, is_dir |-> TRUE] :
             seg \in {g \in Segments : Len(url) = 1 /\ t[url \o <<g>>] # {}}}

RECURSIVE SortedEntries(_)
SortedEntries(S) ==
    IF S = {} THEN <<>>
    ELSE LET m == CHOOSE e \in S :
                     \A o \in S : o = e \/ str_cmp(e.file_name, o.file_name) = "Less"
         IN <<m>> \o SortedEntries(S \ {m})

\* UrlRepo::read_dir_sorted_for_url: the entries sorted by file name
read_dir_sorted_for_url(t, url) == SortedEntries(DirEntries(t, url))

\* DirEntryUrlRepoExt::kind: a name that starts with '<' and has a '>' is a
\* leaf, split at the first '>'; another name is a node if it is a directory
kind(entry) ==
    LET file_name == entry.file_name
        found == {i \in 1..Len(file_name) : file_name[i] = ">"}
    IN IF Head(file_name) = "<" /\ found # {}
       THEN LET split == CHOOSE i \in found : \A j \in found : i <= j
            IN [kind |-> "Leaf", repo_key |-> SubSeq(file_name, 2, split - 1),
                name |-> SubSeq(file_name, split + 1, Len(file_name))]
       ELSE IF entry.is_dir
       THEN [kind |-> "Node", repo_key |-> <<>>, name |-> file_name]
       ELSE [kind |-> "Unknown", repo_key |-> <<>>, name |-> <<>>]

\* str::parse::<DateTime<FixedOffset>> of the name of a leaf: Some(timestamp),
\* or None for an error
parse_name(name) ==
    IF name = <<"2021-03-01T10">> THEN Some(<<1, 0>>)
    ELSE IF name = <<"2021-03-01T11">> THEN Some(<<2, 0>>)
    ELSE None

IdleIter ==
    [pc |-> "idle", stack |-> <<>>, url |-> ListBase, next_dir_entry |-> None,
     yielded |-> <<>>]

\* DocRepo::create ... done() of another run left the leaf of a DocumentVersion
PutLeaf(url, name) ==
    /\ iter.pc = "idle"
    /\ name \in DocLeaves \ tree[url]
    /\ tree' = [tree EXCEPT ![url] = @ \cup {name}]
    /\ UNCHANGED iter

\* another program, or a repository of another kind, left a file
PutOther(url, name) ==
    /\ iter.pc = "idle"
    /\ name \in OtherFiles(url) \ tree[url]
    /\ tree' = [tree EXCEPT ![url] = @ \cup {name}]
    /\ UNCHANGED iter

\* DocRepo::list_all(base_url): UrlRepo::list_all reads the directory of the
\* base url, an error of which (no such directory) is returned
ListAll ==
    /\ iter.pc = "idle"
    /\ iter' = IF DirEntries(tree, ListBase) = {}
               THEN [IdleIter EXCEPT !.pc = "failed"]
               ELSE [IdleIter EXCEPT !.pc = "next",
                         !.stack = <<read_dir_sorted_for_url(tree, ListBase)>>]
    /\ UNCHANGED tree

\* IterUrlRepoLeaves::next, the first loop: the stack is popped, and the url
\* with it, until an iterator has a next entry; None when the stack is empty
RECURSIVE Ascend(_)
Ascend(self) ==
    IF self.stack = <<>> THEN [self EXCEPT !.pc = "finished"]
    ELSE LET last == self.stack[Len(self.stack)]
         IN IF last # <<>>
            THEN [self EXCEPT !.pc = "descend", !.next_dir_entry = Some(Head(last)),
                              !.stack[Len(self.stack)] = Tail(last)]
            ELSE Ascend([self EXCEPT !.stack = SubSeq(@, 1, Len(@) - 1),
                                     !.url = SubSeq(@, 1, Len(@) - 1)])

\* the consumer calls next(), which runs its first loop
IterNext ==
    /\ iter.pc = "next"
    /\ iter' = Ascend(iter)
    /\ UNCHANGED tree

\* the closure of DocRepo::list_all: name.parse().unwrap()
make_leaf(url, name) == <<url, Unwrap(parse_name(name))>>

\* IterUrlRepoLeaves::next, one turn of the second loop: a node is entered, a
\* leaf of this repository is returned, and on any other entry a line is
\* printed and the loop turns again on the same entry
IterDescend ==
    /\ iter.pc = "descend"
    /\ LET entry == Unwrap(iter.next_dir_entry)
           k == kind(entry)
       IN iter' =
            IF k.kind = "Node"
            THEN LET url == iter.url \o k.name
                     dir == read_dir_sorted_for_url(tree, url)
                 IN IF dir = <<>> THEN [iter EXCEPT !.pc = "panicked", !.url = url]
                    ELSE [iter EXCEPT !.url = url, !.next_dir_entry = Some(Head(dir)),
                                      !.stack = Append(@, Tail(dir))]
            ELSE IF k.kind = "Leaf" /\ k.repo_key = <<"docver">>
            THEN IF parse_name(k.name) = None
                 THEN [iter EXCEPT !.pc = "panicked"]
                 ELSE [iter EXCEPT !.pc = "next", !.next_dir_entry = None,
                           !.yielded = Append(@, make_leaf(iter.url, k.name))]
            ELSE iter
    /\ UNCHANGED tree

\* ------------------------------------------------------------------------
Init ==
    /\ docDir = [u \in Urls |-> [n \in Names |-> None]]
    /\ unlinked = [k \in Slots |-> <<>>]
    /\ writers = [w \in Writers |-> IdleWriter]
    /\ updDir = [u \in Urls |-> [n \in Names |-> None]]
    /\ creators = [c \in Creators |-> IdleCreator]
    /\ tagDir = [t \in Tags |-> None]
    /\ taggers = [t \in Taggers |-> IdleTagger]
    /\ calls = [doc |-> 0, upd |-> 0, tag |-> 0]
    /\ updates = [by_url |-> <<>>, by_timestamp |-> <<>>, inserted |-> <<>>]
    /\ asked = <<>>
    /\ tree = [url \in ListUrls |-> {}]
    /\ iter = IdleIter
    /\ history = {}

\* Spec: one process writes documents one after the other
Next ==
    \/ \E ts \in UtcTimestamps :
          Create(1, U1, ts) /\ UNCHANGED <<updVars, tagVars, calls, auxVars>>
    \/ New(1) /\ UNCHANGED <<updVars, tagVars, calls, auxVars>>
    \/ \E buf \in Bufs : Write(1, buf) /\ UNCHANGED <<updVars, tagVars, calls, auxVars>>
    \/ Done(1) /\ UNCHANGED <<updVars, tagVars, calls, auxVars>>

Spec == Init /\ [][Next]_vars

\* SpecConc: callers on several threads.  The writers of the DocRepo interleave
\* step by step, and so do the callers of UpdateRepo::create.  The two
\* repositories share no file, so a run exercises one of them.
NextConc ==
    \/ \E w \in Writers, ts \in UtcTimestamps :
          /\ calls.doc < MaxWrites /\ calls.upd = 0
          /\ Create(w, U1, ts)
          /\ calls' = [calls EXCEPT !.doc = @ + 1]
          /\ UNCHANGED <<updVars, tagVars, auxVars>>
    \/ \E w \in Writers : New(w) /\ UNCHANGED <<updVars, tagVars, calls, auxVars>>
    \/ \E w \in Writers, buf \in Bufs :
          Write(w, buf) /\ UNCHANGED <<updVars, tagVars, calls, auxVars>>
    \/ \E w \in Writers : Done(w) /\ UNCHANGED <<updVars, tagVars, calls, auxVars>>
    \/ \E c \in Creators, ts \in UtcTimestamps, change \in Changes :
          /\ calls.upd < MaxUpdates /\ calls.doc = 0
          /\ UpdCreate(c, U1, ts, change)
          /\ calls' = [calls EXCEPT !.upd = @ + 1]
          /\ UNCHANGED <<docVars, tagVars, auxVars>>
    \/ \E c \in Creators : UpdWrite(c) /\ UNCHANGED <<docVars, tagVars, calls, auxVars>>
    \/ \E c \in Creators : UpdReturn(c) /\ UNCHANGED <<docVars, tagVars, calls, auxVars>>

SpecConc == Init /\ [][NextConc]_vars

\* SpecTag: two threads call TagRepo::tag_update
NextTag ==
    \/ \E t \in Taggers, tag_name \in Tags, update_ref \in UpdateRefs :
          /\ calls.tag < MaxTagUpdates
          /\ TagOpen(t, tag_name, update_ref)
          /\ calls' = [calls EXCEPT !.tag = @ + 1]
          /\ UNCHANGED <<docVars, updVars, auxVars>>
    \/ \E t \in Taggers : TagWrite(t) /\ UNCHANGED <<docVars, updVars, calls, auxVars>>

SpecTag == Init /\ [][NextTag]_vars

\* SpecUpd: one process calls UpdateRepo::create and ensure one after the
\* other, with timestamps of every offset
NextUpd ==
    \/ \E ts \in Timestamps, change \in Changes :
          /\ calls.upd < MaxSeqUpdates
          /\ UpdCreate(1, U1, ts, change)
          /\ calls' = [calls EXCEPT !.upd = @ + 1]
          /\ UNCHANGED <<docVars, tagVars, auxVars>>
    \/ \E ts \in Timestamps, change \in Changes :
          /\ calls.upd < MaxSeqUpdates
          /\ UpdEnsure(1, U1, ts, change)
          /\ calls' = [calls EXCEPT !.upd = @ + 1]
          /\ UNCHANGED <<docVars, tagVars, auxVars>>
    \/ UpdEnsureCreate(1) /\ UNCHANGED <<docVars, tagVars, calls, auxVars>>
    \/ UpdWrite(1) /\ UNCHANGED <<docVars, tagVars, calls, auxVars>>
    \/ UpdReturn(1) /\ UNCHANGED <<docVars, tagVars, calls, auxVars>>

SpecUpd == Init /\ [][NextUpd]_vars

\* SpecUrls: one process calls UpdateRepo::create and ensure one after the
\* other, for a url and for the url one segment above it
NextUrls ==
    \/ \E u \in Urls, ts \in UtcTimestamps, change \in Changes :
          /\ calls.upd < MaxSeqUpdates
          /\ UpdCreate(1, u, ts, change)
          /\ calls' = [calls EXCEPT !.upd = @ + 1]
          /\ UNCHANGED <<docVars, tagVars, auxVars>>
    \/ \E u \in Urls, ts \in UtcTimestamps, change \in Changes :
          /\ calls.upd < MaxSeqUpdates
          /\ UpdEnsure(1, u, ts, change)
          /\ calls' = [calls EXCEPT !.upd = @ + 1]
          /\ UNCHANGED <<docVars, tagVars, auxVars>>
    \/ UpdEnsureCreate(1) /\ UNCHANGED <<docVars, tagVars, calls, auxVars>>
    \/ UpdWrite(1) /\ UNCHANGED <<docVars, tagVars, calls, auxVars>>
    \/ UpdReturn(1) /\ UNCHANGED <<docVars, tagVars, calls, auxVars>>

SpecUrls == Init /\ [][NextUrls]_vars

\* SpecOrd: UpdateRefs are collected into a set of each ordering
NextOrd ==
    \E update_ref \in OrdRefs :
        Insert(update_ref) /\ UNCHANGED <<docVars, updVars, tagVars, calls, asked, tree, iter, history>>

SpecOrd == Init /\ [][NextOrd]_vars

\* SpecHref: one process calls UpdateRepo::create and ensure one after the
\* other with Url values of every form; path_for takes them to_path
NextHref ==
    \/ \E href \in Hrefs, ts \in UtcTimestamps, change \in Changes :
          /\ calls.upd < MaxAsked
          /\ UpdCreate(1, to_path(href), ts, change)
          /\ calls' = [calls EXCEPT !.upd = @ + 1]
          /\ asked' = Append(asked, <<href, ts>>)
          /\ UNCHANGED <<docVars, tagVars, updates, tree, iter, history>>
    \/ \E href \in Hrefs, ts \in UtcTimestamps, change \in Changes :
          /\ calls.upd < MaxAsked
          /\ UpdEnsure(1, to_path(href), ts, change)
          /\ calls' = [calls EXCEPT !.upd = @ + 1]
          /\ asked' = Append(asked, <<href, ts>>)
          /\ UNCHANGED <<docVars, tagVars, updates, tree, iter, history>>
    \/ UpdEnsureCreate(1) /\ UNCHANGED <<docVars, tagVars, calls, auxVars>>
    \/ UpdWrite(1) /\ UNCHANGED <<docVars, tagVars, calls, auxVars>>
    \/ UpdReturn(1) /\ UNCHANGED <<docVars, tagVars, calls, auxVars>>

SpecHref == Init /\ [][NextHref]_vars

\* SpecList: files are left below the base url, then DocRepo::list_all is
\* called and its iterator consumed
NextList ==
    \/ \E url \in ListUrls, name \in DocLeaves :
          PutLeaf(url, name) /\ UNCHANGED <<docVars, updVars, tagVars, calls, updates, asked, history>>
    \/ \E url \in ListUrls : \E name \in OtherFiles(url) :
          PutOther(url, name) /\ UNCHANGED <<docVars, updVars, tagVars, calls, updates, asked, history>>
    \/ ListAll /\ UNCHANGED <<docVars, updVars, tagVars, calls, updates, asked, history>>
    \/ IterNext /\ UNCHANGED <<docVars, updVars, tagVars, calls, updates, asked, history>>
    \/ IterDescend /\ UNCHANGED <<docVars, updVars, tagVars, calls, updates, asked, history>>

SpecList == Init /\ [][NextList]_vars

\* SpecListFair: the consumer goes on calling next() and next() goes on running
Consume ==
    /\ IterNext \/ IterDescend
    /\ UNCHANGED <<docVars, updVars, tagVars, calls, updates, asked, history>>

SpecListFair == SpecList /\ WF_vars(Consume)

\* SpecDrop: one process writes documents one after the other and may drop a
\* writer instead of calling done()
NextDrop ==
    \/ \E ts \in UtcTimestamps :
          Create(1, U1, ts) /\ UNCHANGED <<updVars, tagVars, calls, auxVars>>
    \/ New(1) /\ UNCHANGED <<updVars, tagVars, calls, auxVars>>
    \/ \E buf \in Bufs : Write(1, buf) /\ UNCHANGED <<updVars, tagVars, calls, auxVars>>
    \/ Done(1) /\ UNCHANGED <<updVars, tagVars, calls, auxVars>>
    \/ Drop(1) /\ UNCHANGED <<updVars, tagVars, calls, auxVars>>

SpecDrop == Init /\ [][NextDrop]_vars

\* SpecTagSeq: one process calls TagRepo::tag_update, one call after the other
NextTagSeq ==
    \/ \E tag_name \in Tags, update_ref \in UpdateRefs :
          /\ calls.tag < MaxTagUpdates
          /\ TagOpen(1, tag_name, update_ref)
          /\ calls' = [calls EXCEPT !.tag = @ + 1]
          /\ UNCHANGED <<docVars, updVars, auxVars>>
    \/ TagWrite(1) /\ UNCHANGED <<docVars, updVars, calls, auxVars>>

SpecTagSeq == Init /\ [][NextTagSeq]_vars

\* SpecSeq: one process uses one of the three repositories, one call after the
\* other.  The repositories share no file, so a run exercises one of them.
NextSeq ==
    \/ \E ts \in UtcTimestamps :
          /\ calls.upd = 0 /\ calls.tag = 0
          /\ Create(1, U1, ts)
          /\ calls' = [calls EXCEPT !.doc = 1]
          /\ UNCHANGED <<updVars, tagVars, auxVars>>
    \/ New(1) /\ UNCHANGED <<updVars, tagVars, calls, auxVars>>
    \/ \E buf \in Bufs : Write(1, buf) /\ UNCHANGED <<updVars, tagVars, calls, auxVars>>
    \/ Done(1) /\ UNCHANGED <<updVars, tagVars, calls, auxVars>>
    \/ \E ts \in Timestamps, change \in Changes :
          /\ calls.upd < MaxSeqUpdates /\ calls.doc = 0 /\ calls.tag = 0
          /\ UpdCreate(1, U1, ts, change)
          /\ calls' = [calls EXCEPT !.upd = @ + 1]
          /\ UNCHANGED <<docVars, tagVars, auxVars>>
    \/ \E ts \in Timestamps, change \in Changes :
          /\ calls.upd < MaxSeqUpdates /\ calls.doc = 0 /\ calls.tag = 0
          /\ UpdEnsure(1, U1, ts, change)
          /\ calls' = [calls EXCEPT !.upd = @ + 1]
          /\ UNCHANGED <<docVars, tagVars, auxVars>>
    \/ UpdEnsureCreate(1) /\ UNCHANGED <<docVars, tagVars, calls, auxVars>>
    \/ UpdWrite(1) /\ UNCHANGED <<docVars, tagVars, calls, auxVars>>
    \/ UpdReturn(1) /\ UNCHANGED <<docVars, tagVars, calls, auxVars>>
    \/ \E tag_name \in Tags, update_ref \in UpdateRefs :
          /\ calls.tag < MaxTagUpdates /\ calls.doc = 0 /\ calls.upd = 0
          /\ TagOpen(1, tag_name, update_ref)
          /\ calls' = [calls EXCEPT !.tag = @ + 1]
          /\ UNCHANGED <<docVars, updVars, auxVars>>
    \/ TagWrite(1) /\ UNCHANGED <<docVars, updVars, calls, auxVars>>

SpecSeq == Init /\ [][NextSeq]_vars

\* SpecHistory: one process performs up to MaxWrites writes one after the
\* other; `history` keeps the (timestamp, content) of each as done() is called
NextHistory ==
    \/ \E ts \in UtcTimestamps :
          /\ Cardinality(history) < MaxWrites
          /\ Create(1, U1, ts)
          /\ UNCHANGED <<updVars, tagVars, calls, auxVars>>
    \/ New(1) /\ UNCHANGED <<updVars, tagVars, calls, auxVars>>
    \/ \E buf \in Bufs : Write(1, buf) /\ UNCHANGED <<updVars, tagVars, calls, auxVars>>
    \/ /\ Done(1)
       /\ history' = history \cup {<<writers[1].doc[2], writers[1].written>>}
       /\ UNCHANGED <<updVars, tagVars, calls, updates, asked, tree, iter>>

SpecHistory == Init /\ [][NextHistory]_vars

\* SpecDocs: one process writes up to MaxWrites documents of several urls
\* one after the other, with timestamps of any offset
NextDocs ==
    \/ \E url \in Urls, ts \in Timestamps :
          /\ calls.doc < MaxWrites
          /\ Create(1, url, ts)
          /\ calls' = [calls EXCEPT !.doc = @ + 1]
          /\ UNCHANGED <<updVars, tagVars, auxVars>>
    \/ New(1) /\ UNCHANGED <<updVars, tagVars, calls, auxVars>>
    \/ \E buf \in Bufs : Write(1, buf) /\ UNCHANGED <<updVars, tagVars, calls, auxVars>>
    \/ Done(1) /\ UNCHANGED <<updVars, tagVars, calls, auxVars>>

SpecDocs == Init /\ [][NextDocs]_vars

\* ------------------------------------------------------------------------
\* Properties of the sequential DocRepo (Spec)

\* the instant of a leaf name
Instant(n) == parse(n)[1]

\* the leaf of `leaves` (leaf name -> Some(bytes) or None) chronologically
\* before / after instant t, as a set of at most one name
BeforeOf(leaves, t) ==
    {n \in Names : /\ IsSome(leaves[n]) /\ Instant(n) < t
                   /\ \A m \in Names : IsSome(leaves[m]) /\ Instant(m) < t
                                        => Instant(m) <= Instant(n)}
AfterOf(leaves, t) ==
    {n \in Names : /\ IsSome(leaves[n]) /\ Instant(n) > t
                   /\ \A m \in Names : IsSome(leaves[m]) /\ Instant(m) > t
                                        => Instant(m) >= Instant(n)}

\* no two chronologically adjacent snapshots have the same bytes
NeighbourDeduplicated(leaves) ==
    \A n \in Names : IsSome(leaves[n]) =>
        \A m \in AfterOf(leaves, Instant(n)) : leaves[m] # leaves[n]

\* no writer is between create() and the return of done()
AtRest == \A w \in Writers : writers[w].pc \in {"idle", "done", "failed"}

\* C1: after any sequence of completed, non-overlapping writes, no two
\* chronologically adjacent snapshots of a url have byte-identical content
C1_NeighbourDedup ==
    AtRest => \A u \in Urls : NeighbourDeduplicated(docDir[u])


\* the write of writer w: the leaves of its url before it began and now, the
\* name of its leaf, what it returned
Pre(w) == Unwrap(writers[w].pre)
Now(w) == docDir[writers[w].doc[1]]
LeafName(w) == to_rfc3339(writers[w].doc[2])
Res(w) == Unwrap(writers[w].result)
VersionOf(w, n) == <<writers[w].doc[1], parse(n)>>
Before(w) == BeforeOf(Pre(w), writers[w].doc[2][1])
After(w) == AfterOf(Pre(w), writers[w].doc[2][1])
\* the written content is byte-identical to the `before` / `after` snapshot
SameAsBefore(w) == \E n \in Before(w) : Pre(w)[n] = Some(writers[w].written)
SameAsAfter(w) == \E n \in After(w) : Pre(w)[n] = Some(writers[w].written)
\* done() was called and returned
DoneReturned(w) == writers[w].pc \in {"done", "failed"} /\ Res(w).op = "done"

\* C2: after done() returned Ok(v), open(v) yields exactly the written bytes
C2_RoundTrip ==
    \A w \in Writers : writers[w].pc = "done" =>
        Now(w)[to_rfc3339(Res(w).doc[2])] = Some(writers[w].written)

\* C3: content identical to `before`: done() returns `before`, no events, no
\* leaf at (url, ts) afterwards, every other leaf unchanged
C3_DedupBefore ==
    \A w \in Writers : DoneReturned(w) /\ SameAsBefore(w) =>
        /\ Res(w).ok
        /\ \E n \in Before(w) : Res(w).doc = VersionOf(w, n)
        /\ Res(w).events = <<>>
        /\ Now(w)[LeafName(w)] = None
        /\ \A n \in Names \ {LeafName(w)} : Now(w)[n] = Pre(w)[n]

\* C4: content identical to `after` and not to `before`: the new leaf holds
\* the content, the `after` leaf is gone, done() returns (url, ts) with the
\* events [Updated(url, ts), Deleted(url, after.ts)]
C4_DedupAfter ==
    \A w \in Writers :
        DoneReturned(w) /\ Res(w).ok /\ SameAsAfter(w) /\ ~SameAsBefore(w) =>
        /\ Now(w)[LeafName(w)] = Some(writers[w].written)
        /\ \A n \in After(w) : Now(w)[n] = None
        /\ Res(w).doc = writers[w].doc
        /\ \E n \in After(w) : Res(w).events =
              <<Updated(writers[w].doc), Deleted(VersionOf(w, n))>>

\* C5: content identical to neither neighbour: the new leaf is materialised,
\* no leaf is removed, done() returns (url, ts) with [Updated] and Created
\* exactly when the url had no snapshot before
C5_NewVersion ==
    \A w \in Writers :
        DoneReturned(w) /\ Res(w).ok /\ ~SameAsAfter(w) /\ ~SameAsBefore(w) =>
        /\ Now(w)[LeafName(w)] = Some(writers[w].written)
        /\ \A n \in Names \ {LeafName(w)} : Now(w)[n] = Pre(w)[n]
        /\ Res(w).doc = writers[w].doc
        /\ Res(w).events =
              IF \A n \in Names : Pre(w)[n] = None
              THEN <<Updated(writers[w].doc), Created(writers[w].doc)>>
              ELSE <<Updated(writers[w].doc)>>

\* C6: content identical to both neighbours: `before` wins, done() returns
\* `before` without events, no leaf is created at ts and `after` stays
C6_BeforeWins ==
    \A w \in Writers : DoneReturned(w) /\ SameAsBefore(w) /\ SameAsAfter(w) =>
        /\ Res(w).ok
        /\ \E n \in Before(w) : Res(w).doc = VersionOf(w, n)
        /\ Res(w).events = <<>>
        /\ Now(w) = Pre(w)

\* a write identical to both of its neighbours has returned from done()
C6_Witness ==
    \E w \in Writers : DoneReturned(w) /\ SameAsBefore(w) /\ SameAsAfter(w)


\* the written content is a proper prefix of the snapshot n had before the write
ProperPrefixOf(w, n) ==
    /\ IsSome(Pre(w)[n])
    /\ Len(writers[w].written) < Len(Unwrap(Pre(w)[n]))
    /\ SubSeq(Unwrap(Pre(w)[n]), 1, Len(writers[w].written)) = writers[w].written

\* C30: a neighbour that is strictly longer than the written content, which
\* is a proper prefix of it, is retired at done(): the write of a new (url, ts)
\* that is identical to neither neighbour returns (url, ts), its leaf holds
\* the written content and the longer neighbour stays
C30_LongerNeighbourRetired ==
    \A w \in Writers :
        /\ DoneReturned(w)
        /\ Pre(w)[LeafName(w)] = None
        /\ ~SameAsBefore(w) /\ ~SameAsAfter(w)
        /\ \E n \in Before(w) \cup After(w) : ProperPrefixOf(w, n)
        => /\ Res(w).ok /\ Res(w).doc = writers[w].doc
           /\ Now(w)[LeafName(w)] = Some(writers[w].written)
           /\ \A n \in Before(w) \cup After(w) : Now(w)[n] = Pre(w)[n]

\* the written content so far starts with the whole snapshot n, and goes on
NeighbourIsProperPrefix(w, n) ==
    /\ IsSome(Pre(w)[n])
    /\ Len(Unwrap(Pre(w)[n])) < Len(writers[w].written)
    /\ SubSeq(writers[w].written, 1, Len(Unwrap(Pre(w)[n]))) = Unwrap(Pre(w)[n])
\* the snapshot n starts with the written content so far
WrittenIsPrefix(w, n) ==
    /\ IsSome(Pre(w)[n])
    /\ Len(writers[w].written) <= Len(Unwrap(Pre(w)[n]))
    /\ SubSeq(Unwrap(Pre(w)[n]), 1, Len(writers[w].written)) = writers[w].written

\* C31: between write() calls a neighbour cursor is kept exactly while the
\* neighbour starts with the content written so far, so a neighbour that is
\* a proper prefix of the written content is retired; and a write that
\* returned has not been deduplicated against such a neighbour
C31_PrefixNeighbourRetired ==
    \A w \in Writers :
        /\ writers[w].pc = "writer" =>
              /\ \A n \in Before(w) :
                     IsSome(writers[w].identical_before) <=> WrittenIsPrefix(w, n)
              /\ \A n \in After(w) :
                     IsSome(writers[w].identical_after) <=> WrittenIsPrefix(w, n)
        /\ DoneReturned(w) /\ Res(w).ok =>
              /\ \A n \in Before(w) :
                     NeighbourIsProperPrefix(w, n) => Res(w).doc # VersionOf(w, n)
              /\ \A n \in After(w) :
                     NeighbourIsProperPrefix(w, n) => Now(w)[n] = Pre(w)[n]
\* the writer has written two bytes, the first of which is the whole of its
\* `before` neighbour, while the `after` neighbour goes on like the writer
C31_Witness ==
    \E w \in Writers :
        /\ writers[w].pc = "writer" /\ Len(writers[w].written) = 2
        /\ \E n \in Before(w) :
               NeighbourIsProperPrefix(w, n) /\ Len(Unwrap(Pre(w)[n])) = 1
        /\ IsSome(writers[w].identical_after)

InWrite(w) == writers[w].pc \in {"new", "writer"} \/ DoneReturned(w)

\* C33: a write of no more than the write-avoidance buffer holds, whose
\* content is so far a prefix of `before` and in the end identical to it,
\* leaves every leaf of the url as it was in every state from create() to
\* the return of done(), and done() succeeds
C33_UnchangedNoFileOps ==
    \A w \in Writers :
        /\ InWrite(w)
        /\ Len(writers[w].written) <= WRITE_AVOIDANCE_BUFFER_LIMIT
        /\ \E n \in Before(w) : WrittenIsPrefix(w, n)
        /\ DoneReturned(w) => SameAsBefore(w)
        => /\ Now(w) = Pre(w)
           /\ DoneReturned(w) => Res(w).ok /\ Res(w).events = <<>>
\* done() has returned from a write of one byte identical to `before`
C33_Witness ==
    \E w \in Writers :
        /\ DoneReturned(w) /\ SameAsBefore(w)
        /\ Len(writers[w].written) = WRITE_AVOIDANCE_BUFFER_LIMIT

\* the contents stored for the url in `leaves`
Contents(leaves) == {leaves[n] : n \in {m \in Names : IsSome(leaves[m])}}

\* C34: a write never destroys content: a completed write deletes no leaf but
\* its `after` neighbour, and that only when the `after` leaf is
\* byte-identical to the new leaf that replaces it, so every content stored
\* for the url before the write is still stored after it
C34_NoContentDestroyed ==
    \A w \in Writers : DoneReturned(w) /\ Res(w).ok =>
        /\ \A n \in Names : IsSome(Pre(w)[n]) /\ Now(w)[n] = None =>
              /\ n \in After(w)
              /\ Pre(w)[n] = Some(writers[w].written)
              /\ Now(w)[LeafName(w)] = Pre(w)[n]
        /\ Contents(Pre(w)) \subseteq Contents(Now(w))

\* the outcome of a writer that buffers the whole content and compares it
\* with the complete neighbours when done() is called: what done() returns
\* and the leaves of the url afterwards
WholeContentOutcome(pre, doc, content) ==
    LET name == to_rfc3339(doc[2])
        before == {n \in BeforeOf(pre, doc[2][1]) : pre[n] = Some(content)}
        after == {n \in AfterOf(pre, doc[2][1]) : pre[n] = Some(content)}
        stored == [pre EXCEPT ![name] = Some(content)]
    IN IF before # {}
       THEN [result |-> Ok(<<doc[1], parse(CHOOSE n \in before : TRUE)>>, <<>>),
             leaves |-> pre]
       ELSE IF IsSome(pre[name])
       THEN [result |-> Err("done", "AlreadyExists"), leaves |-> pre]
       ELSE IF after # {}
       THEN LET n == CHOOSE m \in after : TRUE
            IN [result |-> Ok(doc, <<Updated(doc), Deleted(<<doc[1], parse(n)>>)>>),
                leaves |-> [stored EXCEPT ![n] = None]]
       ELSE [result |-> Ok(doc, IF \A n \in Names : pre[n] = None
                                THEN <<Updated(doc), Created(doc)>>
                                ELSE <<Updated(doc)>>),
             leaves |-> stored]

\* write() returned an error: the write ends there
WriteFailed(w) == writers[w].pc = "failed" /\ Res(w).op = "write"
\* the contents over the buffer limit that begin with the bytes `written`
\* and go on: those of which a write() call after `written` overflows
Overflowing(written) ==
    {content \in Bufs :
        /\ Len(content) > WRITE_AVOIDANCE_BUFFER_LIMIT
        /\ Len(content) > Len(written)
        /\ SubSeq(content, 1, Len(written)) = written}

\* C36: the outcome of a write whose done() returned (DocumentVersion,
\* events, leaves of the url) is that of a writer that buffers the whole
\* content and compares it with the neighbours at done(), however the
\* content was split into write() calls and whether or not the buffer
\* overflowed into the leaf; a write that ended with an error of write()
\* is one that the whole-content writer ends with the same error
C36_WholeContentEquivalent ==
    \A w \in Writers :
        /\ DoneReturned(w) =>
              LET whole == WholeContentOutcome(Pre(w), writers[w].doc, writers[w].written)
              IN /\ Res(w) = whole.result
                 /\ Now(w) = whole.leaves
        /\ WriteFailed(w) =>
              \A content \in Overflowing(writers[w].written) :
                  LET whole == WholeContentOutcome(Pre(w), writers[w].doc, content)
                  IN /\ ~whole.result.ok /\ whole.result.err = Res(w).err
                     /\ Now(w) = whole.leaves

\* ------------------------------------------------------------------------
\* Properties of a set of writes (SpecHistory)

\* the writes of h have pairwise different timestamps
DistinctTimestamps(h) == \A e \in h : \A f \in h : e[1][1] = f[1][1] => e = f
\* the write of h chronologically just before the write e, at most one
Preceding(h, e) ==
    {p \in h : /\ p[1][1] < e[1][1]
               /\ \A q \in h : q[1][1] < e[1][1] => q[1][1] <= p[1][1]}
\* the chronologically sorted writes of h, each run of equal adjacent
\* contents represented by its earliest timestamp only
Deduplicated(h) == {e \in h : \A p \in Preceding(h, e) : p[2] # e[2]}
SnapshotsOf(h) ==
    [n \in Names |->
        IF \E e \in Deduplicated(h) : to_rfc3339(e[1]) = n
        THEN Some((CHOOSE e \in Deduplicated(h) : to_rfc3339(e[1]) = n)[2])
        ELSE None]

\* C35: deduplication has a unique outcome: after a set of writes to one url
\* with different timestamps, performed one after the other in any order, the
\* snapshots on disk are the chronologically sorted writes with each run of
\* equal adjacent contents represented by its earliest timestamp
C35_UniqueOutcome ==
    AtRest /\ DistinctTimestamps(history) => docDir[U1] = SnapshotsOf(history)

\* ------------------------------------------------------------------------
\* Properties of the documents of several urls (SpecDocs)

\* at least one snapshot is stored in `leaves`
HasSnapshot(leaves) == \E n \in Names : IsSome(leaves[n])
\* the write of w has ended, with a result or an error
WriteEnded(w) == writers[w].pc \in {"done", "failed"} /\ IsSome(writers[w].result)
\* the write of w stored the first snapshot of its url
StoredFirstSnapshot(w) == ~HasSnapshot(Pre(w)) /\ HasSnapshot(Now(w))
\* how many Created events of its url the write of w returned
CreatedReturned(w) ==
    Cardinality({i \in 1..Len(Res(w).events) :
                    Res(w).events[i] = Created(writers[w].doc)})

\* C37: over writes completed one after the other, document_exists(url) is
\* true exactly when the url has a snapshot and never goes back to false, and
\* Created(url) is returned once by the write that stores the first snapshot
\* of the url and by no other write
C37_ExistsMonotoneCreatedOnce ==
    /\ [](\A u \in Urls : document_exists(docDir, u) <=> HasSnapshot(docDir[u]))
    /\ [][\A u \in Urls : document_exists(docDir, u) => document_exists(docDir', u)]_vars
    /\ [](\A w \in Writers : WriteEnded(w) =>
             CreatedReturned(w) = IF StoredFirstSnapshot(w) THEN 1 ELSE 0)

\* ------------------------------------------------------------------------
\* Properties of dropped writers (SpecDrop)

\* the writer dropped before this one, if this one writes the same (url, ts)
\* and the dropped one had written something
Redone(w) ==
    /\ IsSome(writers[w].dropped)
    /\ Unwrap(writers[w].dropped).doc = writers[w].doc
    /\ Unwrap(writers[w].dropped).written # <<>>

\* C24: a writer dropped after some write() calls leaves its partly written
\* leaf on disk, and the create() of the same (url, ts) that follows fails with
\* AlreadyExists
C24_DroppedLeafStays ==
    \A w \in Writers :
        /\ writers[w].pc = "dropped" /\ writers[w].written # <<>>
              => Now(w)[LeafName(w)] = Some(writers[w].written)
        /\ Redone(w) /\ writers[w].pc # "new"
              => /\ writers[w].pc = "failed"
                 /\ Res(w).op = "create" /\ Res(w).err = "AlreadyExists"


\* the caller, whether its call has returned, its result, its previous call
Caller == creators[1]
UpdReturned == Caller.pc \in {"done", "failed"}
UpdRes == Unwrap(Caller.result)
PrevCall == Unwrap(Caller.prev)
UpdLeafName == to_rfc3339(Caller.timestamp)

\* the events create(url, timestamp, change) returns on repository dir, which
\* has no leaf at (url, timestamp)
CreateWouldReturn(dir, url, timestamp, change) ==
    LET written == [dir EXCEPT ![url][to_rfc3339(timestamp)] = Some(as_bytes(change))]
    IN create_events(Unwrap(latest(written, url)), url, timestamp)

\* the caller has returned from the second of two successive ensure calls with
\* the same arguments, the first begun without a leaf at (url, ts)
EnsuredTwice ==
    /\ UpdReturned /\ Caller.op = "ensure"
    /\ IsSome(Caller.prev)
    /\ PrevCall.op = "ensure"
    /\ PrevCall.url = Caller.url
    /\ PrevCall.timestamp = Caller.timestamp
    /\ PrevCall.change = Caller.change
    /\ PrevCall.pre[Caller.url][UpdLeafName] = None

OnExistingLeaf ==
    /\ UpdReturned
    /\ IsSome(Caller.pre[Caller.url][UpdLeafName])
    /\ \/ Caller.op = "create"
       \/ /\ Caller.op = "ensure"
          /\ Unwrap(Caller.pre[Caller.url][UpdLeafName]) # as_bytes(Caller.change)

\* C12: create on an existing leaf, and ensure on an existing leaf of other
\* bytes, fail with AlreadyExists, return no events and change no leaf
C12_AlreadyExists ==
    OnExistingLeaf =>
        /\ ~UpdRes.ok /\ UpdRes.err = "AlreadyExists"
        /\ UpdRes.events = <<>>
        /\ updDir = Caller.pre
C12_Witness ==
    /\ OnExistingLeaf /\ Caller.op = "ensure"
    /\ Caller.change = <<>>
    /\ \E n \in Names \ {UpdLeafName} : IsSome(updDir[Caller.url][n])

\* the caller has returned from a successful write: a create, or an ensure
\* that did not find the leaf
Wrote ==
    /\ UpdReturned /\ UpdRes.ok
    /\ Caller.op = "ensure" => Caller.pre[Caller.url][UpdLeafName] = None

\* the timestamps stored for url in repository dir
Stored(dir, url) == {parse(n) : n \in {m \in Names : IsSome(dir[url][m])}}

\* C13: a successful write returns Added(url, ts), and New(url, ts) as well
\* if and only if ts is strictly greater than every timestamp stored for the
\* url before
C13_NewIffGreater ==
    Wrote =>
        LET new == New_(Caller.url, Caller.timestamp)
            greater == \A t \in Stored(Caller.pre, Caller.url) :
                          t[1] < Caller.timestamp[1]
        IN /\ UpdRes.events \in {<<Added(Caller.url, Caller.timestamp)>>,
                                 <<Added(Caller.url, Caller.timestamp), new>>}
           /\ Len(UpdRes.events) = 2 <=> greater

\* the timestamps of the updates the caller has written for url
WrittenFor(url) == {update[2] : update \in {v \in Caller.log : v[1] = url}}

\* C14: after a successful write for a url, latest(url) succeeds and is the
\* maximum of the timestamps written for the url so far
C14_LatestIsMax ==
    Wrote =>
        LET l == latest(updDir, Caller.url)
        IN /\ IsSome(l)
           /\ \E t \in WrittenFor(Caller.url) : eq(Unwrap(l), t)
           /\ \A t \in WrittenFor(Caller.url) : t[1] <= Unwrap(l)[1]
C14_Witness ==
    /\ Wrote
    /\ ~eq(Unwrap(latest(updDir, Caller.url)), Caller.timestamp)
    /\ Cardinality(WrittenFor(Caller.url)) = 3

\* C15: get_update(url, ts) returns the change of every update that a call
\* has written, the empty change included, whatever calls came after
C15_UpdateRoundTrip ==
    \A update \in Caller.log :
        get_update(updDir, update[1], update[2]) = Some(update[3])
C15_Witness ==
    /\ UpdReturned
    /\ \E v, w \in Caller.log :
          /\ v[3] = <<>> /\ w[3] = <<"eacute">>
          /\ v[2] # Caller.timestamp /\ w[2] # Caller.timestamp

\* leaves (leaf name -> Some(bytes) or None) hold at most one leaf of each
\* timestamp, timestamps compared as DateTime<FixedOffset> compares them
OneLeafPerTimestamp(leaves) ==
    \A n, m \in Names :
        IsSome(leaves[n]) /\ IsSome(leaves[m]) /\ eq(parse(n), parse(m)) => n = m

\* C16: in every state each url has at most one UpdateRepo leaf and at most
\* one DocRepo leaf of each timestamp
C16_OneLeafPerTimestamp ==
    \A u \in Urls : OneLeafPerTimestamp(updDir[u]) /\ OneLeafPerTimestamp(docDir[u])

\* the timestamps of the items of a listing that are no error, in their order
RECURSIVE ListedTimestamps(_)
ListedTimestamps(items) ==
    IF items = <<>> THEN <<>>
    ELSE (IF Head(items) = None THEN <<>> ELSE <<Unwrap(Head(items))[2]>>)
         \o ListedTimestamps(Tail(items))

\* a listing of timestamps holds every leaf of leaves once, a later instant
\* never after an earlier one
NewestFirst(listed, leaves) ==
    /\ {to_rfc3339(listed[i]) : i \in 1..Len(listed)} = {n \in Names : IsSome(leaves[n])}
    /\ \A i, j \in 1..Len(listed) :
           i < j => to_rfc3339(listed[i]) # to_rfc3339(listed[j]) /\ listed[i][1] >= listed[j][1]

\* C23: in every state list_updates(url) and list_versions(url) yield every
\* stored leaf of the url once, newest first
C23_NewestFirst ==
    \A u \in Urls :
        /\ NewestFirst(ListedTimestamps(list_updates(updDir, u)), updDir[u])
        /\ LET versions == list_versions(docDir, u)
           IN NewestFirst([i \in 1..Len(versions) |-> versions[i][2]], docDir[u])

\* ------------------------------------------------------------------------
\* Properties of the UpdateRepo of several urls (SpecUrls)

\* repository dir without what it stores for the urls other than url
Only(dir, url) ==
    [v \in Urls |-> IF v = url THEN dir[v] ELSE [n \in Names |-> None]]

\* the reads of url give on dir what they give when nothing else is stored
ReadsAlone(dir, url) ==
    /\ latest(dir, url) = latest(Only(dir, url), url)
    /\ latest_err(dir, url) = latest_err(Only(dir, url), url)
    /\ list_updates(dir, url) = list_updates(Only(dir, url), url)
    /\ \A ts \in Timestamps :
           get_update(dir, url, ts) = get_update(Only(dir, url), url, ts)

\* C25: the reads of a url do not depend on what is stored for the other
\* urls; a create or ensure of a (url, ts) without leaf succeeds with the
\* events it returns when nothing else is stored, and no call changes a leaf
\* of another url
C25_UrlsIndependent ==
    /\ \A u \in Urls : ReadsAlone(updDir, u)
    /\ UpdReturned /\ Caller.pre[Caller.url][UpdLeafName] = None =>
           /\ UpdRes.ok
           /\ UpdRes.events = CreateWouldReturn(Only(Caller.pre, Caller.url),
                                  Caller.url, Caller.timestamp, Caller.change)
    /\ \A u \in Urls \ {Caller.url} : updDir[u] = Caller.pre[u]

\* C38: a write that returns an error has no effect: when create or ensure
\* of the UpdateRepo returns Err, or create, write or done of a DocRepo
\* writer does, the leaves and their bytes are those of before the operation
C38_ErrorHasNoEffect ==
    /\ UpdReturned /\ ~UpdRes.ok => updDir = Caller.pre
    /\ \A w \in Writers : writers[w].pc = "failed" => Now(w) = Pre(w)

\* C26: in every state latest(url) fails with NotFound for a url without
\* leaf, and get_update(url, ts) fails where no leaf is
C26_MissingIsNotFound ==
    \A u \in Urls :
        /\ (\A n \in Names : updDir[u][n] = None) =>
               latest(updDir, u) = None /\ latest_err(updDir, u) = "NotFound"
        /\ \A ts \in Timestamps :
               updDir[u][to_rfc3339(ts)] = None => get_update(updDir, u, ts) = None

\* ------------------------------------------------------------------------
\* Properties of the orderings of UpdateRefs (SpecOrd)

\* the urls in the order of their text: ".../doc", ".../test", ".../test/doc"
UrlsInOrder == <<U3, U2, U1>>
UrlIndex(u) == CHOOSE i \in 1..Len(UrlsInOrder) : UrlsInOrder[i] = u

\* the tuples (url, timestamp) and (timestamp, url) of an UpdateRef, and the
\* lexicographic order of such tuples
UrlThenTimestamp(r) == <<UrlIndex(r[1]), r[2][1]>>
TimestampThenUrl(r) == <<r[2][1], UrlIndex(r[1])>>
TupleLess(p, q) == p[1] < q[1] \/ (p[1] = q[1] /\ p[2] < q[2])

\* ordering is the comparison of the tuples p and q
ComparesAs(ordering, p, q) ==
    /\ ordering = "Less" <=> TupleLess(p, q)
    /\ ordering = "Greater" <=> TupleLess(q, p)
    /\ ordering = "Equal" <=> p = q

Inserted == {updates.inserted[i] : i \in 1..Len(updates.inserted)}

\* set is in the strict order of the tuples and holds an equal of every
\* inserted UpdateRef
SortedBy(set, Tuple(_)) ==
    /\ \A i, j \in 1..Len(set) : i < j => TupleLess(Tuple(set[i]), Tuple(set[j]))
    /\ \A r \in Inserted : \E i \in 1..Len(set) : UpdateRef_eq(set[i], r)
    /\ \A i \in 1..Len(set) : set[i] \in Inserted

\* C29: for the UpdateRefs collected so far, UpdateRefByUrl compares as the
\* tuples (url, timestamp) and UpdateRefByTimestamp as the tuples
\* (timestamp, url), Equal exactly when the UpdateRefs are equal, and each set
\* is in the order of its tuples
C29_Orderings ==
    /\ \A a, b \in Inserted :
           /\ ComparesAs(UpdateRefByUrl_cmp(a, b), UrlThenTimestamp(a), UrlThenTimestamp(b))
           /\ ComparesAs(UpdateRefByTimestamp_cmp(a, b),
                         TimestampThenUrl(a), TimestampThenUrl(b))
           /\ UpdateRefByUrl_cmp(a, b) = "Equal" <=> UpdateRef_eq(a, b)
           /\ UpdateRefByTimestamp_cmp(a, b) = "Equal" <=> UpdateRef_eq(a, b)
    /\ SortedBy(updates.by_url, UrlThenTimestamp)
    /\ SortedBy(updates.by_timestamp, TimestampThenUrl)
\* two UpdateRefs that the orderings put in opposite orders, and a third of
\* the instant of one of them with another offset
C29_Witness ==
    /\ Len(updates.inserted) = 3
    /\ Len(updates.by_url) = 2
    /\ updates.by_url # updates.by_timestamp
    /\ \E a, b \in Inserted : a # b /\ UpdateRef_eq(a, b)

\* ------------------------------------------------------------------------
\* Properties of the mapping of Url values to directories (SpecHref)

\* the Url and timestamp of call i, and those of the call in progress or last
\* returned
AskedUrl(i) == asked[i][1]
LastAsked == asked[Len(asked)]

\* C28: Url values that differ have different node directories; a call fails
\* with AlreadyExists only when an earlier call wrote the same Url and
\* timestamp, and an update is found only under a Url it was written for
C28_PathsApart ==
    /\ \A i, j \in 1..Len(asked) :
           AskedUrl(i) # AskedUrl(j) => to_path(AskedUrl(i)) # to_path(AskedUrl(j))
    /\ asked # <<>> /\ UpdReturned /\ ~UpdRes.ok /\ UpdRes.err = "AlreadyExists" =>
           \E i \in 1..(Len(asked) - 1) : asked[i] = LastAsked
    /\ \A href \in Hrefs, ts \in UtcTimestamps :
           IsSome(updDir[to_path(href)][to_rfc3339(ts)]) =>
               \E i \in 1..Len(asked) : asked[i] = <<href, ts>>

\* ------------------------------------------------------------------------
\* Properties of DocRepo::list_all (SpecList, SpecListFair)

\* the leaves of the DocRepo in the tree, as (url, name of the leaf)
OwnLeavesOf(url) ==
    {<<url, kind([file_name |-> f, is_dir |-> FALSE]).name>> :
        f \in {g \in tree[url] : Len(g) > 1 /\ g[2] = "docver"}}
OwnLeaves == UNION {OwnLeavesOf(url) : url \in ListUrls}

\* a listing is under way; it has ended, by None or by a panic
Listing == iter.pc \in {"next", "descend"}
Ended == iter.pc \in {"finished", "panicked"}

\* C21: a listing under way comes to its end
C21_ListAllTerminates == Listing ~> Ended

\* C22: the items yielded so far are in the order of their urls, and those
\* of one url in the order of their timestamps
C22_EnumerationOrder ==
    \A i, j \in 1..Len(iter.yielded) :
        i < j =>
            LET a == iter.yielded[i]
                b == iter.yielded[j]
            IN \/ url_cmp(a[1], b[1]) = "Less"
               \/ a[1] = b[1] /\ cmp(a[2], b[2]) = "Less"

\* C27: the listing does not panic, and when it has returned None it has
\* yielded one item for each leaf of the DocRepo
C27_ErrorsAreItems ==
    /\ iter.pc # "panicked"
    /\ iter.pc = "finished" => Len(iter.yielded) = Cardinality(OwnLeaves)

\* ------------------------------------------------------------------------
\* Properties of the sequential TagRepo (SpecTagSeq)

\* the caller, whether its call has returned, and the file of tag in dir
\* (empty if absent)
Tagger == taggers[1]
TagReturned == Tagger.pc = "done"
TagFile(dir, tag) == IF dir[tag] = None THEN <<>> ELSE Unwrap(dir[tag])

\* C18: after a tag_update(name, r) the tag file is the file before the call
\* (empty if absent) followed by the one line of r and a newline
C18_AppendOneLine ==
    TagReturned =>
        TagFile(tagDir, Tagger.tag) =
            TagFile(Tagger.pre_dir, Tagger.tag) \o UpdateRefText(Tagger.update_ref)
                \o <<"\n">>
C18_Witness ==
    /\ TagReturned
    /\ Len(Lines(TagFile(Tagger.pre_dir, Tagger.tag), <<>>)) = 2

\* the number of times event e is among events
Count(events, e) == Cardinality({i \in 1..Len(events) : events[i] = e})

\* C19: a successful tag_update(name, r) returns UpdateTagged(name, r), and
\* TagCreated(name) as well if and only if the tag had no file before the call
C19_TagEvents ==
    TagReturned =>
        LET events == Unwrap(Tagger.result).events
            tagged == UpdateTagged(Tagger.tag, Tagger.update_ref)
            created == TagCreated(Tagger.tag)
        IN /\ Count(events, tagged) = 1
           /\ Count(events, created) = IF Tagger.pre_dir[Tagger.tag] = None THEN 1 ELSE 0
           /\ \A i \in 1..Len(events) : events[i] \in {tagged, created}
C19_Witness ==
    /\ TagReturned
    /\ IsSome(Tagger.pre_dir[Tagger.tag])
    /\ \E t \in Tags : Tagger.pre_dir[t] = None

\* the tags the caller has written, and the tag names in the order of their
\* names
WrittenTags == {t \in Tags : Tagger.log[t] # <<>>}
TagNames == <<<<"cat">>, <<"dog">>, <<"pets", "dog">>>>
TagRank(tag) == CHOOSE i \in 1..Len(TagNames) : TagNames[i] = tag

\* list_updates_in_tag(tag) yields the UpdateRefs written to the tag, in the
\* order of the calls, duplicates kept
ListsUpdatesInOrder ==
    \A tag \in WrittenTags :
        list_updates_in_tag(tagDir, tag) =
            Some([i \in 1..Len(Tagger.log[tag]) |-> Some(Tagger.log[tag][i])])

\* list_tags() yields every written tag exactly once, sorted by name
ListsTagsSorted ==
    LET tags == list_tags(tagDir)
    IN /\ \A tag \in WrittenTags : Count(tags, tag) = 1
       /\ \A i \in 1..Len(tags) : tags[i] \in WrittenTags
       /\ \A i, j \in 1..Len(tags) : i < j => TagRank(tags[i]) < TagRank(tags[j])

\* C20: after any sequence of tag_update calls, list_updates_in_tag yields the
\* UpdateRefs of the calls made for the tag in call order, duplicates kept,
\* and list_tags yields every written tag exactly once, sorted by name
C20_Listings ==
    Tagger.pc \in {"idle", "done"} => ListsUpdatesInOrder /\ ListsTagsSorted

\* ------------------------------------------------------------------------
\* Properties of the three repositories, one caller (SpecSeq)

\* every update leaf that existed when the caller's call began exists with the
\* same bytes
UpdLeavesKept ==
    \A u \in Urls, n \in Names :
        IsSome(Caller.pre[u][n]) => updDir[u][n] = Caller.pre[u][n]

\* every snapshot that existed when the writer was created exists with the
\* same bytes, or was the `after` neighbour and the write has returned
\* Deleted for it
DocLeavesKept ==
    IsSome(writers[1].pre) =>
        \A n \in Names :
            IsSome(Pre(1)[n]) =>
                \/ Now(1)[n] = Pre(1)[n]
                \/ /\ Now(1)[n] = None
                   /\ n \in After(1)
                   /\ writers[1].pc = "done"
                   /\ Count(Res(1).events, Deleted(VersionOf(1, n))) = 1

\* s is a prefix of t and the rest of t is whole lines
GainedLines(s, t) ==
    /\ Len(s) <= Len(t) /\ SubSeq(t, 1, Len(s)) = s
    /\ Len(t) > Len(s) => t[Len(t)] = "\n"

\* every tag file that existed when the caller's call began exists and has
\* only gained lines at its end
TagFilesKept ==
    \A t \in Tags :
        IsSome(Tagger.pre_dir[t]) =>
            IsSome(tagDir[t]) /\ GainedLines(Unwrap(Tagger.pre_dir[t]), Unwrap(tagDir[t]))

\* C17: a call never changes the bytes of an existing update leaf or of an
\* existing snapshot and never deletes one, but for the `after` neighbour a
\* write deduplicated against; a tag file only gains lines at its end
C17_NeverModified == UpdLeavesKept /\ DocLeavesKept /\ TagFilesKept
C17_Witness ==
    /\ writers[1].pc = "done"
    /\ \E n, m \in Names :
          /\ IsSome(Pre(1)[n]) /\ Now(1)[n] = None
          /\ IsSome(Pre(1)[m]) /\ Now(1)[m] = Pre(1)[m]

\* ------------------------------------------------------------------------
\* Properties of concurrent callers (SpecConc, SpecTag)

\* C7: between a writer's create() and its done() no leaf of its version is
\* on disk for list_versions, open, ensure_version, document_exists or the
\* neighbours() of another create to find; between the create_new and the
\* write_all of UpdateRepo::create, get_update finds no leaf of the update
C7_NoPartialLeaf ==
    /\ \A w \in Writers :
          writers[w].pc = "writer" /\ IsSome(writers[w].file) =>
             /\ Unwrap(writers[w].file).slot # 0
             /\ path_for_version(docDir, writers[w].doc) = None
    /\ \A c \in Creators :
          creators[c].pc = "opened" =>
             get_update(updDir, creators[c].url, creators[c].timestamp) = None

\* the current writes of v and w overlapped
Overlap(v, w) == v # w /\ v \in writers[w].rivals /\ w \in writers[v].rivals

\* C8: two writes of one url at different timestamps that overlapped, begun
\* on neighbour-deduplicated snapshots: once both have returned from done(),
\* the snapshots of the url are neighbour-deduplicated
C8_ConcurrentDedup ==
    \A v, w \in Writers :
        /\ Overlap(v, w)
        /\ DoneReturned(v) /\ DoneReturned(w)
        /\ writers[v].doc[1] = writers[w].doc[1]
        /\ writers[v].doc[2][1] # writers[w].doc[2][1]
        /\ NeighbourDeduplicated(Pre(v)) /\ NeighbourDeduplicated(Pre(w))
        => NeighbourDeduplicated(Now(w))

\* the current create calls of c and d overlapped
UpdOverlap(c, d) == c # d /\ c \in creators[d].rivals /\ d \in creators[c].rivals

\* both have returned from a write of the same (url, ts) that overlapped
SameVersion(v, w) ==
    /\ Overlap(v, w)
    /\ writers[v].pc \in {"done", "failed"} /\ writers[w].pc \in {"done", "failed"}
    /\ writers[v].doc = writers[w].doc
SameUpdate(c, d) ==
    /\ UpdOverlap(c, d)
    /\ creators[c].pc \in {"done", "failed"} /\ creators[d].pc \in {"done", "failed"}
    /\ creators[c].url = creators[d].url
    /\ creators[c].timestamp = creators[d].timestamp

\* C9: of two concurrent writes of the same (url, ts), one fails with
\* AlreadyExists (so at most one succeeds)
C9_AtMostOne ==
    /\ \A v, w \in Writers : SameVersion(v, w) =>
          \E l \in {v, w} : ~Res(l).ok /\ Res(l).err = "AlreadyExists"
    /\ \A c, d \in Creators : SameUpdate(c, d) =>
          \E l \in {c, d} : LET r == Unwrap(creators[l].result)
                            IN ~r.ok /\ r.err = "AlreadyExists"

\* the current tag_update calls of s and t overlapped
TagOverlap(s, t) == s # t /\ s \in taggers[t].rivals /\ t \in taggers[s].rivals

\* C10: after two concurrent tag_update calls of one tag, the tag file is what
\* it was before them followed by the two lines, whole, in either order
C10_BothLines ==
    \A s, t \in Taggers :
        /\ TagOverlap(s, t)
        /\ taggers[s].pc = "done" /\ taggers[t].pc = "done"
        /\ taggers[s].tag = taggers[t].tag
        => LET ls == Line(taggers[s].update_ref)
               lt == Line(taggers[t].update_ref)
               file == Unwrap(tagDir[taggers[s].tag])
           IN \/ file = taggers[s].pre \o ls \o lt
              \/ file = taggers[s].pre \o lt \o ls

\* the events the current call of t returned, and how many of them are e /
\* are UpdateTagged events
TagEventsOf(t) == Unwrap(taggers[t].result).events
TagEventCount(t, e) == Cardinality({i \in 1..Len(TagEventsOf(t)) : TagEventsOf(t)[i] = e})
UpdateTaggedCount(t) ==
    Cardinality({i \in 1..Len(TagEventsOf(t)) : TagEventsOf(t)[i][1] = "UpdateTagged"})
\* the calls of s and t overlapped, both for one tag that did not exist when
\* the first of them began, and both have returned
BothTaggedNewTag(s, t) ==
    /\ TagOverlap(s, t)
    /\ taggers[s].pc = "done" /\ taggers[t].pc = "done"
    /\ taggers[s].tag = taggers[t].tag
    /\ \/ taggers[s].pre_dir[taggers[s].tag] = None
       \/ taggers[t].pre_dir[taggers[t].tag] = None

\* C39: of the concurrent tag_update calls for a tag that does not exist yet
\* exactly one returns TagCreated(name), once, under every interleaving, and
\* every call that succeeds returns exactly one UpdateTagged, its own
C39_OneTagCreated ==
    /\ \A t \in Taggers : taggers[t].pc = "done" =>
          /\ UpdateTaggedCount(t) = 1
          /\ TagEventCount(t, UpdateTagged(taggers[t].tag, taggers[t].update_ref)) = 1
    /\ \A s, t \in Taggers : BothTaggedNewTag(s, t) =>
          TagEventCount(s, TagCreated(taggers[s].tag))
              + TagEventCount(t, TagCreated(taggers[t].tag)) = 1

\* two overlapping calls for one new tag have returned: the second began
\* when the first had created the file and not yet written its line
C39_Witness ==
    \E s, t \in Taggers :
        /\ BothTaggedNewTag(s, t)
        /\ taggers[s].is_new_tag
        /\ taggers[s].update_ref # taggers[t].update_ref
        /\ taggers[s].pre_dir[taggers[s].tag] = None
        /\ taggers[t].pre_dir[taggers[t].tag] = Some(<<>>)

====
